---- MODULE Spec2Model ----
(***************************************************************************)
(* Model of the Discord -> ClickUp task bot (src/src/bot.py): the message  *)
(* pipeline handle_task_creation and the helpers it is built from.         *)
(*                                                                         *)
(* Text is a sequence of one-character strings, so that strip, lower,      *)
(* split, substring search, replace and int are computed as Python         *)
(* computes them.  Two characters outside ASCII are written as atoms:      *)
(* "o_acute" (the o-acute of 'stworz') and "sup2" (superscript two, for    *)
(* which str.isdigit() is True and int() raises ValueError).               *)
(***************************************************************************)
EXTENDS Naturals, Integers, Sequences, FiniteSets, TLC

VARIABLES
    api_key,    \* whether openai.api_key is set (bot.py:22), fixed at startup
    clickup_client, \* the ClickUpClient's list_id and folder_id (bot.py:175-180)
    channel,    \* the Discord channel's messages, oldest first
    store,      \* the tasks created in ClickUp, in order of creation
    unit,       \* one call of a helper function: its inputs and its result
    runs        \* the handle_task_creation coroutines, by run

vars == <<api_key, clickup_client, channel, store, unit, runs>>

----------------------------------------------------------------------------
(* Python's str operations, on sequences of characters *)

Whitespace == {" ", "\t", "\n"}

UpperAlphabet ==
    <<"A", "B", "C", "D", "E", "F", "G", "H", "I", "J", "K", "L", "M",
      "N", "O", "P", "Q", "R", "S", "T", "U", "V", "W", "X", "Y", "Z">>

LowerAlphabet ==
    <<"a", "b", "c", "d", "e", "f", "g", "h", "i", "j", "k", "l", "m",
      "n", "o", "p", "q", "r", "s", "t", "u", "v", "w", "x", "y", "z">>

DecimalDigits == <<"0", "1", "2", "3", "4", "5", "6", "7", "8", "9">>

Min(a, b) == IF a <= b THEN a ELSE b

\* s[:n]
Take(s, n) == SubSeq(s, 1, Min(n, Len(s)))

LowerChar(c) ==
    IF \E i \in 1..26 : UpperAlphabet[i] = c
    THEN LowerAlphabet[CHOOSE i \in 1..26 : UpperAlphabet[i] = c]
    ELSE c

UpperChar(c) ==
    IF \E i \in 1..26 : LowerAlphabet[i] = c
    THEN UpperAlphabet[CHOOSE i \in 1..26 : LowerAlphabet[i] = c]
    ELSE c

lower(s) == [i \in 1..Len(s) |-> LowerChar(s[i])]

upper(s) == [i \in 1..Len(s) |-> UpperChar(s[i])]

\* s.strip(): without the whitespace at both ends
strip(s) ==
    LET kept == {i \in 1..Len(s) : s[i] \notin Whitespace}
    IN  IF kept = {} THEN <<>>
        ELSE SubSeq(s, CHOOSE i \in kept : \A j \in kept : i <= j,
                       CHOOSE i \in kept : \A j \in kept : j <= i)

\* the elements of a set of numbers, in increasing order
Sorted(S) ==
    [k \in 1..Cardinality(S) |->
        CHOOSE i \in S : Cardinality({j \in S : j < i}) = k - 1]

\* s.split(): the words between runs of whitespace
split(s) ==
    LET starts == {i \in 1..Len(s) :
                     s[i] \notin Whitespace /\ (i = 1 \/ s[i - 1] \in Whitespace)}
        ends == {i \in 1..Len(s) :
                   s[i] \notin Whitespace /\ (i = Len(s) \/ s[i + 1] \in Whitespace)}
    IN  [k \in 1..Cardinality(starts) |->
            SubSeq(s, Sorted(starts)[k], Sorted(ends)[k])]

\* s.split(sep) for a one-character separator: always at least one piece
split_sep(s, sep) ==
    LET cuts == Sorted({i \in 1..Len(s) : s[i] = sep})
    IN  [k \in 1..(Len(cuts) + 1) |->
            SubSeq(s, IF k = 1 THEN 1 ELSE cuts[k - 1] + 1,
                      IF k = Len(cuts) + 1 THEN Len(s) ELSE cuts[k] - 1)]

\* sub in s
Contains(sub, s) ==
    \E i \in 0..(Len(s) - Len(sub)) : SubSeq(s, i + 1, i + Len(sub)) = sub

startswith(s, prefix) ==
    Len(s) >= Len(prefix) /\ SubSeq(s, 1, Len(prefix)) = prefix

\* s.replace(old, new): every non-overlapping occurrence, left to right
RECURSIVE replace(_, _, _)
replace(s, old, new) ==
    LET found == {i \in 1..(Len(s) - Len(old) + 1) :
                    SubSeq(s, i, i + Len(old) - 1) = old}
    IN  IF found = {} THEN s
        ELSE LET first == CHOOSE i \in found : \A j \in found : i <= j
             IN  SubSeq(s, 1, first - 1) \o new
                 \o replace(SubSeq(s, first + Len(old), Len(s)), old, new)

IsDecimalChar(c) == \E i \in 1..10 : DecimalDigits[i] = c

\* str.isdigit(): non-empty, every character a digit; superscript digits count
isdigit(s) ==
    s # <<>> /\ \A i \in 1..Len(s) : IsDecimalChar(s[i]) \/ s[i] = "sup2"

\* whether int(s) returns (it raises ValueError on a superscript digit)
IntParses(s) == s # <<>> /\ \A i \in 1..Len(s) : IsDecimalChar(s[i])

DigitValue(c) == (CHOOSE i \in 1..10 : DecimalDigits[i] = c) - 1

RECURSIVE int(_)
int(s) ==
    IF s = <<>> THEN 0
    ELSE 10 * int(SubSeq(s, 1, Len(s) - 1)) + DigitValue(s[Len(s)])

RECURSIVE Join(_, _)
Join(pieces, sep) ==
    IF pieces = <<>> THEN <<>>
    ELSE IF Len(pieces) = 1 THEN pieces[1]
    ELSE pieces[1] \o sep \o Join(Tail(pieces), sep)

\* n copies of s
Repeat(s, n) == [i \in 1..(n * Len(s)) |-> s[((i - 1) % Len(s)) + 1]]

----------------------------------------------------------------------------
(* The language model: openai.chat.completions.create *)

Raise == [kind |-> "raise", text |-> <<>>]

\* a completion whose message.content is None
NullContent == [kind |-> "null", text |-> <<>>]

Text(t) == [kind |-> "text", text |-> t]

\* The call as the bot sees it: without a key the client raises before any
\* request is sent; with a key the outcome is the environment's.
chat_completions_create(key, outcome) == IF key THEN outcome ELSE Raise

\* What a helper returns to its caller.
Return(v, calls) == [ret |-> v, raised |-> FALSE, model_calls |-> calls]

Raised(calls) == [ret |-> <<>>, raised |-> TRUE, model_calls |-> calls]

----------------------------------------------------------------------------
(* filter_relevant_context *)

ContextFallbackNoModel == 5

ContextFallback == 3

MaxRelevant == 5

\* [x for x in xs if x.strip().isdigit()]
RECURSIVE DigitTokens(_)
DigitTokens(xs) ==
    IF xs = <<>> THEN <<>>
    ELSE (IF isdigit(strip(Head(xs))) THEN <<strip(Head(xs))>> ELSE <<>>)
         \o DigitTokens(Tail(xs))

\* [all_messages[i] for i in relevant_indices if 0 <= i < len(all_messages)]
RECURSIVE SelectMessages(_, _)
SelectMessages(all_messages, relevant_indices) ==
    IF relevant_indices = <<>> THEN <<>>
    ELSE (IF 0 <= Head(relevant_indices) /\ Head(relevant_indices) < Len(all_messages)
          THEN <<all_messages[Head(relevant_indices) + 1]>>
          ELSE <<>>)
         \o SelectMessages(all_messages, Tail(relevant_indices))

\* ParseRelevant without the final [:5]
ParseRelevantUncapped(all_messages, result) ==
    LET toks == DigitTokens(split_sep(result, ","))
    IN  IF \E i \in 1..Len(toks) : ~IntParses(toks[i])
        THEN Return(Take(all_messages, ContextFallback), 1)
        ELSE LET relevant_indices == [i \in 1..Len(toks) |-> int(toks[i]) - 1]
             IN  Return(SelectMessages(all_messages, relevant_indices), 1)

\* the inner try block (bot.py:241-250)
ParseRelevant(all_messages, result) ==
    LET toks == DigitTokens(split_sep(result, ","))
    IN  IF \E i \in 1..Len(toks) : ~IntParses(toks[i])
        THEN Return(Take(all_messages, ContextFallback), 1)
        ELSE LET relevant_indices == [i \in 1..Len(toks) |-> int(toks[i]) - 1]
                 relevant_messages == SelectMessages(all_messages, relevant_indices)
             IN  Return(Take(relevant_messages, MaxRelevant), 1)

\* the outer try block (bot.py:203-250); raises what the except clause catches
FilterTry(all_messages, key, outcome) ==
    LET response == chat_completions_create(key, outcome)
    IN  IF response.kind # "text" THEN Raised(1)
        ELSE LET result == lower(strip(response.text))
             IN  IF result = <<"n", "o", "n", "e">> THEN Return(<<>>, 1)
                 ELSE ParseRelevant(all_messages, result)

\* filter_relevant_context whose guard forgets the credential
filter_relevant_context_no_key_guard(task_content, all_messages, key, outcome) ==
    IF all_messages = <<>>
    THEN Return(Take(all_messages, ContextFallbackNoModel), 0)
    ELSE LET r == FilterTry(all_messages, key, outcome)
         IN  IF r.raised
             THEN Return(Take(all_messages, ContextFallback), r.model_calls)
             ELSE r

filter_relevant_context(task_content, all_messages, key, outcome) ==
    IF all_messages = <<>> \/ ~key
    THEN Return(Take(all_messages, ContextFallbackNoModel), 0)
    ELSE LET r == FilterTry(all_messages, key, outcome)
         IN  IF r.raised
             THEN Return(Take(all_messages, ContextFallback), r.model_calls)
             ELSE r

----------------------------------------------------------------------------
(* Inputs of the helper-function specifications *)

MaxWindow == 6

MaxTokens == 2

Message(i) == <<"User", ": ", i>>

\* windows of distinct messages, and windows in which two messages alternate
Windows ==
    {[i \in 1..n |-> Message(i)] : n \in 0..MaxWindow}
    \cup {[i \in 1..n |-> Message(1 + (i % 2))] : n \in 2..MaxWindow}

FilterTokens == {<<"1">>, <<"2">>, <<"7">>, <<"0">>, <<"x">>, <<"sup2">>, <<" ", "3", " ">>}

FilterResponses ==
    {Join(ts, <<",">>) : ts \in UNION {[1..n -> FilterTokens] : n \in 1..MaxTokens}}
    \cup {<<"n", "o", "n", "e">>, <<" ", "N", "o", "n", "e", "\n">>, <<"n", "o", "n", "e", ".">>, <<>>, <<"1", ",", "2", ",", "3", ",", "4", ",", "5", ",", "6">>,
          <<"6", ",", "5", ",", "4", ",", "3", ",", "2", ",", "1">>, <<"1", ",", "1", ",", "1", ",", "1", ",", "1", ",", "1">>, <<"M", "e", "s", "s", "a", "g", "e", "s", " ", "1", " ", "a", "n", "d", " ", "2">>, <<"1", "0">>}

FilterOutcomes == {Raise, NullContent} \cup {Text(t) : t \in FilterResponses}

NoUnit == [fn |-> "none", st |-> "idle", content |-> <<>>, window |-> <<>>,
           outcome |-> Raise, limit |-> 0, fails |-> FALSE, args |-> <<>>,
           res |-> Return(<<>>, 0)]

\* Python's None, where a text is expected
None == <<"<None>">>

Runs == {1, 2}

\* a coroutine that was never started
IdleRun ==
    [pc |-> "idle", content |-> <<>>, clean_content |-> <<>>,
     is_command |-> FALSE, final_task_name |-> None,
     task_input_content |-> <<>>, task_description_from_context |-> <<>>,
     target_list_id |-> None, list_description |-> <<>>,
     all_channel_messages |-> <<>>, relevant_context |-> <<>>,
     trace |-> <<>>]

NoRuns == [r \in Runs |-> IdleRun]

\* the rest of the process while one helper function is exercised
UnitEnvironment ==
    /\ runs = NoRuns
    /\ clickup_client = [list_id |-> <<>>, folder_id |-> <<>>]
    /\ channel = <<>>
    /\ store = <<>>

InitFilter ==
    /\ api_key \in BOOLEAN
    /\ UnitEnvironment
    /\ \E w \in Windows, o \in FilterOutcomes :
          unit = [NoUnit EXCEPT !.fn = "filter_relevant_context", !.st = "call",
                                !.window = w, !.outcome = o]

CallFilter ==
    /\ unit.fn = "filter_relevant_context" /\ unit.st = "call"
    /\ unit' = [unit EXCEPT !.st = "done",
                  !.res = filter_relevant_context(unit.content, unit.window,
                                                  api_key, unit.outcome)]
    /\ UNCHANGED <<api_key, clickup_client, channel, store, runs>>

NextFilter == CallFilter

SpecFilter == InitFilter /\ [][NextFilter]_vars

FilterDone == unit.fn = "filter_relevant_context" /\ unit.st = "done"

----------------------------------------------------------------------------
(* is_task_creation_command *)

FastPathWords == 10

NoKeyWords == 3

FallbackWords == 5

TechnicalWords ==
    {<<"i", "m", "p", "l", "e", "m", "e", "n", "t">>, <<"f", "i", "x">>, <<"c", "r", "e", "a", "t", "e">>, <<"u", "p", "d", "a", "t", "e">>, <<"r", "e", "v", "i", "e", "w">>, <<"a", "d", "d">>,
     <<"r", "e", "m", "o", "v", "e">>, <<"d", "e", "l", "e", "t", "e">>, <<"b", "u", "g">>, <<"f", "e", "a", "t", "u", "r", "e">>, <<"s", "y", "s", "t", "e", "m">>, <<"a", "p", "i">>,
     <<"d", "a", "t", "a", "b", "a", "s", "e">>, <<"i", "n", "t", "e", "r", "f", "a", "c", "e">>}

NoKeyCommandWords == {<<"t", "a", "s", "k">>, <<"t", "a", "s", "k", "a">>, <<"z", "a", "d", "a", "n", "i", "e">>, <<"b", "a", "c", "k", "l", "o", "g">>}

FallbackCommandWords ==
    {<<"t", "a", "s", "k">>, <<"t", "a", "s", "k", "a">>, <<"z", "a", "d", "a", "n", "i", "e">>, <<"b", "a", "c", "k", "l", "o", "g">>, <<"d", "o", "d", "a", "j">>, <<"s", "t", "w", "o_acute", "r", "z">>,
     <<"c", "r", "e", "a", "t", "e">>, <<"a", "d", "d">>}

\* any(word in text for word in words)
AnyIn(words, text) == \E word \in words : Contains(word, text)

\* IntentTry comparing the response without upper-casing it
IntentTryCaseSensitive(content_cleaned, key, outcome) ==
    LET response == chat_completions_create(key, outcome)
    IN  IF response.kind # "text" THEN Raised(1)
        ELSE Return(strip(response.text) = <<"C", "O", "M", "M", "A", "N", "D">>, 1)

\* the try block (bot.py:396-447)
IntentTry(content_cleaned, key, outcome) ==
    LET response == chat_completions_create(key, outcome)
    IN  IF response.kind # "text" THEN Raised(1)
        ELSE LET result == upper(strip(response.text))
             IN  Return(result = <<"C", "O", "M", "M", "A", "N", "D">>, 1)

\* IntentFallback with the limit and the words of the no-credential branch
IntentFallbackAsNoKey(content_cleaned) ==
    /\ Len(split(content_cleaned)) <= NoKeyWords
    /\ AnyIn(NoKeyCommandWords, lower(content_cleaned))

\* the except block (bot.py:449-455)
IntentFallback(content_cleaned) ==
    /\ Len(split(content_cleaned)) <= FallbackWords
    /\ AnyIn(FallbackCommandWords, lower(content_cleaned))

\* is_task_creation_command without the long-message fast path
is_task_creation_command_no_fast_path(content, key, outcome) ==
    LET content_cleaned == strip(content)
    IN  IF content_cleaned = <<>> THEN Return(FALSE, 0)
        ELSE IF ~key
        THEN Return(/\ Len(split(content_cleaned)) <= NoKeyWords
                    /\ AnyIn(NoKeyCommandWords, lower(content_cleaned)), 0)
        ELSE LET r == IntentTry(content_cleaned, key, outcome)
             IN  IF r.raised
                 THEN Return(IntentFallback(content_cleaned), r.model_calls)
                 ELSE r

is_task_creation_command(content, key, outcome) ==
    LET content_cleaned == strip(content)
    IN  IF content_cleaned = <<>> THEN Return(FALSE, 0)
        ELSE IF /\ Len(split(content_cleaned)) > FastPathWords
                /\ AnyIn(TechnicalWords, lower(content_cleaned))
        THEN Return(FALSE, 0)
        ELSE IF ~key
        THEN Return(/\ Len(split(content_cleaned)) <= NoKeyWords
                    /\ AnyIn(NoKeyCommandWords, lower(content_cleaned)), 0)
        ELSE LET r == IntentTry(content_cleaned, key, outcome)
             IN  IF r.raised
                 THEN Return(IntentFallback(content_cleaned), r.model_calls)
                 ELSE r

MaxWords == 11

LeadWords ==
    {<<"t", "a", "s", "k">>, <<"a", "d", "d">>, <<"F", "i", "x">>, <<"p", "r", "e", "f", "i", "x">>, <<"B", "a", "c", "k", "l", "o", "g">>, <<"h", "e", "l", "l", "o">>,
     <<"z", "a", "d", "a", "n", "i", "e">>, <<"s", "t", "w", "o_acute", "r", "z">>, <<"T", "A", "S", "K">>}

\* a lead word followed by n - 1 filler words
Sentence(lead, n) == Join(<<lead>> \o [i \in 1..(n - 1) |-> <<"i", "t">>], <<" ">>)

IntentContents ==
    {Sentence(w, n) : w \in LeadWords, n \in 1..MaxWords}
    \cup {<<>>, <<" ", " ", " ">>, <<" ", "\t", "\n">>, <<"d", "o", "d", "a", "j", " ", "t", "a", "s", "k", "a">>, <<" ", " ", "c", "r", "e", "a", "t", "e", " ", "t", "a", "s", "k", " ", "\n">>,
          <<"t", "a", "s", "k", "\t", "i", "t", "\n", "i", "t">>, <<"F", "i", "x", " ", "l", "o", "g", "i", "n", " ", "b", "u", "g", " ", "w", "i", "t", "h", " ", "s", "p", "e", "c", "i", "a", "l", " ", "c", "h", "a", "r", "s">>}

IntentResponses ==
    {<<"C", "O", "M", "M", "A", "N", "D">>, <<"c", "o", "m", "m", "a", "n", "d">>, <<" ", "C", "o", "m", "m", "a", "n", "d", "\n">>, <<"T", "A", "S", "K", "_", "D", "E", "S", "C", "R", "I", "P", "T", "I", "O", "N">>,
     <<"C", "O", "M", "M", "A", "N", "D", ".">>, <<"A", " ", "C", "O", "M", "M", "A", "N", "D">>, <<>>}

IntentOutcomes == {Raise, NullContent} \cup {Text(t) : t \in IntentResponses}

InitIntent ==
    /\ api_key \in BOOLEAN
    /\ UnitEnvironment
    /\ \E c \in IntentContents, o \in IntentOutcomes :
          unit = [NoUnit EXCEPT !.fn = "is_task_creation_command", !.st = "call",
                                !.content = c, !.outcome = o]

CallIntent ==
    /\ unit.fn = "is_task_creation_command" /\ unit.st = "call"
    /\ unit' = [unit EXCEPT !.st = "done",
                  !.res = is_task_creation_command(unit.content, api_key,
                                                   unit.outcome)]
    /\ UNCHANGED <<api_key, clickup_client, channel, store, runs>>

NextIntent == CallIntent

SpecIntent == InitIntent /\ [][NextIntent]_vars

IntentDone == unit.fn = "is_task_creation_command" /\ unit.st = "done"

----------------------------------------------------------------------------
(* generate_smart_title *)

MaxTitleLen == 80

FallbackTitleLen == 50

\* f"{task_content[:50]}{'...' if len(task_content) > 50 else ''}"
FallbackTitle(task_content) ==
    Take(task_content, FallbackTitleLen)
    \o (IF Len(task_content) > FallbackTitleLen THEN <<".", ".", ".">> ELSE <<>>)

\* TitleRejected that forgets the empty title
TitleRejectedLengthOnly(generated_title) == Len(generated_title) > MaxTitleLen

\* whether the generated title is rejected (bot.py:299)
TitleRejected(generated_title) ==
    generated_title = <<>> \/ Len(generated_title) > MaxTitleLen

\* the try block (bot.py:258-302)
TitleTry(task_content, relevant_context, key, outcome) ==
    LET response == chat_completions_create(key, outcome)
    IN  IF response.kind # "text" THEN Raised(1)
        ELSE LET generated_title == strip(response.text)
             IN  IF TitleRejected(generated_title)
                 THEN Return(FallbackTitle(task_content), 1)
                 ELSE Return(generated_title, 1)

\* generate_smart_title without its except clause
generate_smart_title_unguarded(task_content, relevant_context, key, outcome) ==
    TitleTry(task_content, relevant_context, key, outcome)

generate_smart_title(task_content, relevant_context, key, outcome) ==
    LET r == TitleTry(task_content, relevant_context, key, outcome)
    IN  IF r.raised
        THEN Return(FallbackTitle(task_content), r.model_calls)
        ELSE r

MaxContentLen == 52

MaxResponseLen == 82

TitleContents ==
    {Repeat(<<"c">>, n) : n \in 0..MaxContentLen}
    \cup {<<"F", "i", "x", " ", "l", "o", "g", "i", "n", " ", "b", "u", "g", " ", "w", "i", "t", "h", " ", "s", "p", "e", "c", "i", "a", "l", " ", "c", "h", "a", "r", "s">>, <<" ", "p", "a", "d", "d", "e", "d", " ">>}

TitleResponses ==
    {Repeat(<<"t">>, n) : n \in {0, 1} \cup ((MaxResponseLen - 4)..MaxResponseLen)}
    \cup {<<" ", "F", "i", "x", " ", "l", "o", "g", "i", "n", " ", "b", "u", "g", " ", "\n">>, <<" ", " ", " ">>,
          <<" ">> \o Repeat(<<"t">>, MaxResponseLen - 2) \o <<" ">>,
          <<" ">> \o Repeat(<<"t">>, MaxResponseLen - 1) \o <<"\n">>}

TitleOutcomes == {Raise, NullContent} \cup {Text(t) : t \in TitleResponses}

InitTitle ==
    /\ api_key \in BOOLEAN
    /\ UnitEnvironment
    /\ \E c \in TitleContents, o \in TitleOutcomes :
          unit = [NoUnit EXCEPT !.fn = "generate_smart_title", !.st = "call",
                                !.content = c, !.outcome = o]

CallTitle ==
    /\ unit.fn = "generate_smart_title" /\ unit.st = "call"
    /\ unit' = [unit EXCEPT !.st = "done",
                  !.res = generate_smart_title(unit.content, unit.window,
                                               api_key, unit.outcome)]
    /\ UNCHANGED <<api_key, clickup_client, channel, store, runs>>

NextTitle == CallTitle

SpecTitle == InitTitle /\ [][NextTitle]_vars

TitleDone == unit.fn = "generate_smart_title" /\ unit.st = "done"

----------------------------------------------------------------------------
(* get_channel_context *)

Reverse(s) == [i \in 1..Len(s) |-> s[Len(s) - i + 1]]

\* channel.history(limit=limit): the most recent messages, newest first
history(chan, limit) ==
    [i \in 1..Min(limit, Len(chan)) |-> chan[Len(chan) - i + 1]]

\* f"{message.author.display_name}: {message.content}"
msg_text(message) == message.display_name \o <<":", " ">> \o message.content

RECURSIVE NonBotTexts(_)
NonBotTexts(messages) ==
    IF messages = <<>> THEN <<>>
    ELSE (IF ~Head(messages).bot THEN <<msg_text(Head(messages))>> ELSE <<>>)
         \o NonBotTexts(Tail(messages))

\* get_channel_context without the final reversal
get_channel_context_newest_first(chan, limit, fails) ==
    IF fails THEN <<>> ELSE NonBotTexts(history(chan, limit))

get_channel_context(chan, limit, fails) ==
    IF fails THEN <<>> ELSE Reverse(NonBotTexts(history(chan, limit)))

ExtractContextLimit == 15

ContextLimit == 20

----------------------------------------------------------------------------
(* extract_task_from_context *)

PlaceholderTitle == <<"T", "a", "s", "k", " ", "f", "r", "o", "m", " ", "c", "o", "n", "v", "e", "r", "s", "a", "t", "i", "o", "n", " ", "c", "o", "n", "t", "e", "x", "t">>

NoAnalysis == <<"N", "o", " ", "A", "I", " ", "a", "n", "a", "l", "y", "s", "i", "s", " ", "a", "v", "a", "i", "l", "a", "b", "l", "e">>

\* the loop over the response's lines (bot.py:515-519)
RECURSIVE ParseLines(_, _, _)
ParseLines(lines, title, description) ==
    IF lines = <<>> THEN <<title, description>>
    ELSE IF startswith(Head(lines), <<"T", "I", "T", "L", "E", ":">>)
    THEN ParseLines(Tail(lines), strip(replace(Head(lines), <<"T", "I", "T", "L", "E", ":">>, <<>>)),
                    description)
    ELSE IF startswith(Head(lines), <<"D", "E", "S", "C", "R", "I", "P", "T", "I", "O", "N", ":">>)
    THEN ParseLines(Tail(lines), title,
                    strip(replace(Head(lines), <<"D", "E", "S", "C", "R", "I", "P", "T", "I", "O", "N", ":">>, <<>>)))
    ELSE ParseLines(Tail(lines), title, description)

\* the try block (bot.py:469-521)
ExtractTry(command_content, key, outcome) ==
    LET response == chat_completions_create(key, outcome)
    IN  IF response.kind # "text" THEN Raised(1)
        ELSE Return(ParseLines(split_sep(response.text, "\n"),
                               PlaceholderTitle, command_content), 1)

\* extract_task_from_context without its except clause
extract_task_from_context_unguarded(all_channel_messages, command_content, key, outcome) ==
    IF ~key THEN Return(<<PlaceholderTitle, NoAnalysis>>, 0)
    ELSE ExtractTry(command_content, key, outcome)

\* all_channel_messages, the context fetched with limit=15, only enters the
\* prompt
extract_task_from_context(all_channel_messages, command_content, key, outcome) ==
    IF ~key THEN Return(<<PlaceholderTitle, NoAnalysis>>, 0)
    ELSE LET r == ExtractTry(command_content, key, outcome)
         IN  IF r.raised
             THEN Return(<<PlaceholderTitle, command_content>>, r.model_calls)
             ELSE r

----------------------------------------------------------------------------
(* ClickUpClient and determine_target_list *)

\* Python truthiness of an Optional[str]
Truthy(v) == v # None /\ v # <<>>

StoreError == [kind |-> "error", lists |-> <<>>]

StoreOk(lists) == [kind |-> "ok", lists |-> lists]

get_folder_lists(client, outcome) ==
    IF ~Truthy(client.folder_id) THEN <<>>
    ELSE IF outcome.kind = "error" THEN <<>>
    ELSE outcome.lists

\* get_newest_list_from_folder that takes lists[0]
get_oldest_list_from_folder(client, outcome) ==
    LET lists == get_folder_lists(client, outcome)
    IN  IF lists = <<>> THEN <<>> ELSE <<lists[1]>>

\* Optional[dict] as a sequence: <<>> for None, else the folder's last list
get_newest_list_from_folder(client, outcome) ==
    LET lists == get_folder_lists(client, outcome)
    IN  IF lists = <<>> THEN <<>> ELSE <<lists[Len(lists)]>>

BacklogLabel == <<"clipboard", " ">> \o <<"B", "a", "c", "k", "l", "o", "g">>

FallbackLabel == <<"clipboard", " ">> \o <<"B", "a", "c", "k", "l", "o", "g", " ", "(", "f", "a", "l", "l", "b", "a", "c", "k", ")">>

SprintLabel(list_name) == <<"rocket", " ">> \o list_name

determine_target_list(message_content, client, outcome) ==
    IF Contains(<<"b", "a", "c", "k", "l", "o", "g">>, lower(message_content))
    THEN [list_id |-> None, list_description |-> BacklogLabel, lookups |-> 0]
    ELSE LET newest_list == get_newest_list_from_folder(client, outcome)
         IN  IF newest_list # <<>>
             THEN [list_id |-> newest_list[1].id,
                   list_description |-> SprintLabel(newest_list[1].name),
                   lookups |-> IF Truthy(client.folder_id) THEN 1 ELSE 0]
             ELSE [list_id |-> None, list_description |-> FallbackLabel,
                   lookups |-> IF Truthy(client.folder_id) THEN 1 ELSE 0]

\* create_task reading the list id the first run left in a shared slot
create_task_target_shared(client, list_id) ==
    IF Truthy(runs[1].target_list_id) THEN runs[1].target_list_id
    ELSE client.list_id

\* create_task that always posts to the backlog list
create_task_target_backlog(client, list_id) == client.list_id

\* list_id or self.list_id (bot.py:79)
create_task_target(client, list_id) ==
    IF Truthy(list_id) THEN list_id ELSE client.list_id

----------------------------------------------------------------------------
(* handle_task_creation *)

BotUserId == <<"4", "2">>

Mention == <<"<", "@">> \o BotUserId \o <<">">>

NickMention == <<"<", "@", "!">> \o BotUserId \o <<">">>

\* cleaning that leaves the mention tokens in place
CleanContentKeepMention(content) == strip(content)

\* the message without the bot's mention tokens (bot.py:537-538)
CleanContent(content) ==
    strip(replace(strip(replace(content, Mention, <<>>)), NickMention, <<>>))

\* the guard that never finds the message empty
IsEmptyMessageNever(clean_content) == FALSE

\* if not clean_content (bot.py:540)
IsEmptyMessage(clean_content) == clean_content = <<>>

\* a failed submission that is swallowed
AfterCreateTaskSwallowed(accepted) == "reply_success"

\* where the run continues after create_task: it re-raises a failed request
\* (bot.py:105-109), which the handler catches at bot.py:679
AfterCreateTask(accepted) ==
    IF accepted THEN "reply_success" ELSE "reply_error"

\* NeedsTitle that ignores the title the extractor produced
NeedsTitleAlways(final_task_name) == TRUE

\* whether the title is still to be generated (bot.py:573)
NeedsTitle(final_task_name) == final_task_name = None

\* context_summary (bot.py:580-585)
ContextSummary(relevant_context, all_channel_messages) ==
    IF relevant_context # <<>>
    THEN [kind |-> "relevant", messages |-> relevant_context, analysed |-> 0]
    ELSE IF all_channel_messages # <<>>
    THEN [kind |-> "note", messages |-> <<>>,
          analysed |-> Len(all_channel_messages)]
    ELSE [kind |-> "empty", messages |-> <<>>, analysed |-> 0]

Event(op, name, list, flag) ==
    [op |-> op, name |-> name, list |-> list, flag |-> flag]

Call(op) == Event(op, <<>>, <<>>, FALSE)

\* one chat_completions_create event per model call made
ModelCalls(n) == [i \in 1..n |-> Call("chat_completions_create")]

\* one get_folder_lists event per request made, with the store's answer
StoreLookups(n, lists_outcome) ==
    [i \in 1..n |-> Event("get_folder_lists", <<>>, lists_outcome.lists,
                          lists_outcome.kind = "ok")]

NewRun(content) == [IdleRun EXCEPT !.pc = "new", !.content = content]

\* The handlers are coroutines of one event loop. A run whose pc is
\* "blocked" is inside a synchronous network call (openai at bot.py:224,
\* requests at bot.py:102): it holds the loop's only thread until the call
\* returns, so no other coroutine is resumed meanwhile.
Scheduled(r) == \A q \in Runs \ {r} : runs[q].pc # "blocked"

\* async with message.channel.typing(): the coroutine suspends on entry
EnterTyping(r) ==
    /\ Scheduled(r)
    /\ runs[r].pc = "new"
    /\ runs' = [runs EXCEPT ![r].pc = "typing"]
    /\ UNCHANGED <<api_key, clickup_client, channel, store, unit>>

\* routing on the text the task is made of instead of the message
RoutedByTaskInput(run, lists_outcome) ==
    LET t == determine_target_list(run.task_input_content, clickup_client,
                                   lists_outcome)
    IN  [run EXCEPT !.target_list_id = t.list_id,
                    !.list_description = t.list_description,
                    !.trace = @ \o <<Call("determine_target_list")>>
                                \o StoreLookups(t.lookups, lists_outcome)
                                \o <<Call("get_channel_context")>>,
                    !.pc = "context"]

\* determine_target_list(clean_content), then the suspension in
\* get_channel_context(message.channel, limit=20) (bot.py:560-566)
Routed(run, lists_outcome) ==
    LET t == determine_target_list(run.clean_content, clickup_client,
                                   lists_outcome)
    IN  [run EXCEPT !.target_list_id = t.list_id,
                    !.list_description = t.list_description,
                    !.trace = @ \o <<Call("determine_target_list")>>
                                \o StoreLookups(t.lookups, lists_outcome)
                                \o <<Call("get_channel_context")>>,
                    !.pc = "context"]

SprintLists ==
    <<[id |-> <<"s", "1">>, name |-> <<"S", "p", "r", "i", "n", "t", "1">>],
      [id |-> <<"s", "2">>, name |-> <<"S", "p", "r", "i", "n", "t", "2">>]>>

\* what the store answers to the folder lookup
FolderOutcomes == {StoreError, StoreOk(<<>>), StoreOk(SprintLists)}

\* bot.py:534-566, up to the first suspension: the empty message is
\* answered; a command suspends in extract_task_from_context's context
\* fetch; a description is routed and suspends in the context fetch.
Classify(r) ==
    /\ Scheduled(r)
    /\ runs[r].pc = "typing"
    /\ LET clean_content == CleanContent(runs[r].content)
           run == [runs[r] EXCEPT !.clean_content = clean_content]
       IN  IF IsEmptyMessage(clean_content)
           THEN runs' = [runs EXCEPT ![r] = [run EXCEPT !.pc = "reply_prompt"]]
           ELSE \E outcome \in {Raise, Text(<<"C", "O", "M", "M", "A", "N", "D">>), Text(<<"T", "A", "S", "K", "_", "D", "E", "S", "C", "R", "I", "P", "T", "I", "O", "N">>)},
                   lists_outcome \in FolderOutcomes :
                  LET c == is_task_creation_command(clean_content, api_key, outcome)
                      classified ==
                        [run EXCEPT !.is_command = c.ret,
                           !.trace = @ \o <<Event("is_task_creation_command",
                                                  <<>>, <<>>, c.ret)>>
                                       \o ModelCalls(c.model_calls)]
                  IN  IF c.raised
                      THEN runs' = [runs EXCEPT ![r] =
                             [classified EXCEPT !.pc = "reply_error"]]
                      ELSE IF c.ret
                      THEN runs' = [runs EXCEPT ![r] =
                             [classified EXCEPT
                                !.trace = @ \o <<Call("extract_task_from_context"),
                                                 Call("get_channel_context")>>,
                                !.pc = "extract"]]
                      ELSE runs' = [runs EXCEPT ![r] =
                             Routed([classified EXCEPT
                                       !.task_input_content = clean_content,
                                       !.final_task_name = None],
                                    lists_outcome)]
    /\ UNCHANGED <<api_key, clickup_client, channel, store, unit>>

ExtractResponses ==
    {<<"T", "I", "T", "L", "E", ":", " ", "T", "i", "d", "y", " ", "u", "p", "\n", "D", "E", "S", "C", "R", "I", "P", "T", "I", "O", "N", ":", " ", "m", "o", "v", "e", " ", "i", "t", " ", "t", "o", " ", "t", "h", "e", " ", "b", "a", "c", "k", "l", "o", "g">>,
     <<"T", "I", "T", "L", "E", ":", " ", "F", "i", "x", " ", "l", "o", "g", "i", "n", "\n", "D", "E", "S", "C", "R", "I", "P", "T", "I", "O", "N", ":", " ", "U", "s", "e", "r", "s", " ", "c", "a", "n", "n", "o", "t", " ", "l", "o", "g", " ", "i", "n">>,
     <<"T", "I", "T", "L", "E", ":", "\n", "D", "E", "S", "C", "R", "I", "P", "T", "I", "O", "N", ":", " ", "x">>,
     <<"T", "I", "T", "L", "E", ":", " ">> \o Repeat(<<"t">>, MaxTitleLen + 1),
     <<"S", "u", "r", "e", ",", " ", "h", "e", "r", "e", " ", "i", "s", " ", "a", " ", "t", "a", "s", "k">>,
     <<"D", "E", "S", "C", "R", "I", "P", "T", "I", "O", "N", ":", " ", "o", "n", "l", "y">>,
     <<"T", "I", "T", "L", "E", ":", " ", "a", "\n", "n", "o", "t", "e", "\n", "T", "I", "T", "L", "E", ":", " ", "b", " ", "T", "I", "T", "L", "E", ":", " ", "c">>}

ExtractOutcomes == {Raise, NullContent} \cup {Text(t) : t \in ExtractResponses}

\* bot.py:462-566 on the command path, from the context fetch of
\* extract_task_from_context to the next suspension
Extract(r) ==
    /\ Scheduled(r)
    /\ runs[r].pc = "extract"
    /\ \E fails \in BOOLEAN, outcome \in ExtractOutcomes,
          lists_outcome \in FolderOutcomes :
          LET e == extract_task_from_context(
                     get_channel_context(channel, ExtractContextLimit, fails),
                     runs[r].clean_content, api_key, outcome)
          IN  IF e.raised
              THEN runs' = [runs EXCEPT ![r].trace = @ \o ModelCalls(e.model_calls),
                                        ![r].pc = "reply_error"]
              ELSE runs' = [runs EXCEPT ![r] =
                     Routed([runs[r] EXCEPT
                               !.final_task_name = e.ret[1],
                               !.task_description_from_context = e.ret[2],
                               !.task_input_content = e.ret[2],
                               !.trace = @ \o ModelCalls(e.model_calls)],
                            lists_outcome)]
    /\ UNCHANGED <<api_key, clickup_client, channel, store, unit>>

PipelineFilterOutcomes ==
    {Raise, Text(<<"n", "o", "n", "e">>), Text(<<"2", ",", "1">>), Text(<<"1", ",", "2", ",", "3", ",", "4", ",", "5", ",", "6">>), Text(<<"x">>)}

PipelineTitleOutcomes ==
    {Raise, Text(<<"F", "i", "x", " ", "l", "o", "g", "i", "n", " ", "b", "u", "g">>), Text(<<>>),
     Text(Repeat(<<"t">>, MaxTitleLen + 1))}

\* The context has arrived and the run is inside the model call of
\* filter_relevant_context (bot.py:224) or the requests.post of create_task
\* (bot.py:102), neither of which is awaited, and the answer is not there yet.
Stall(r) ==
    /\ Scheduled(r)
    /\ runs[r].pc = "context"
    /\ runs' = [runs EXCEPT ![r].pc = "blocked"]
    /\ UNCHANGED <<api_key, clickup_client, channel, store, unit>>

\* bot.py:566-612: the context arrives, is filtered, the title is generated
\* if it is still missing, and the task is submitted; a failed submission
\* is re-raised by create_task and caught at bot.py:679.
Submit(r) ==
    /\ Scheduled(r)
    /\ runs[r].pc \in {"context", "blocked"}
    /\ \E fails \in BOOLEAN, filter_outcome \in PipelineFilterOutcomes,
          title_outcome \in PipelineTitleOutcomes, accepted \in BOOLEAN :
          LET run == runs[r]
              all_channel_messages ==
                get_channel_context(channel, ContextLimit, fails)
              f == filter_relevant_context(run.task_input_content,
                                           all_channel_messages, api_key,
                                           filter_outcome)
              needs_title == NeedsTitle(run.final_task_name)
              t == generate_smart_title(run.task_input_content, f.ret, api_key,
                                        title_outcome)
              \* an exception of a helper leaves the try block (bot.py:530)
              failed == f.raised \/ (needs_title /\ ~f.raised /\ t.raised)
              final_task_name ==
                IF needs_title /\ ~failed THEN t.ret ELSE run.final_task_name
              target == create_task_target(clickup_client, run.target_list_id)
              task == [list_id |-> target, name |-> final_task_name,
                       description |->
                         [command |-> run.is_command,
                          message |-> run.clean_content,
                          extracted |-> run.task_description_from_context,
                          target_list |-> run.list_description,
                          context |-> ContextSummary(f.ret, all_channel_messages)]]
          IN  /\ runs' = [runs EXCEPT ![r] =
                   [run EXCEPT
                      !.all_channel_messages = all_channel_messages,
                      !.relevant_context = IF f.raised THEN <<>> ELSE f.ret,
                      !.final_task_name = final_task_name,
                      !.trace = @ \o <<Call("filter_relevant_context")>>
                                  \o ModelCalls(f.model_calls)
                                  \o (IF needs_title /\ ~f.raised
                                      THEN <<Call("generate_smart_title")>>
                                           \o ModelCalls(t.model_calls)
                                      ELSE <<>>)
                                  \o (IF failed THEN <<>>
                                      ELSE <<Event("create_task", final_task_name,
                                                   target, accepted)>>),
                      !.pc = IF failed THEN "reply_error"
                             ELSE AfterCreateTask(accepted)]]
              /\ store' = IF accepted /\ ~failed THEN Append(store, task)
                          ELSE store
    /\ UNCHANGED <<api_key, clickup_client, channel, unit>>

BotMessage(kind) ==
    [display_name |-> <<"B", "o", "t">>, bot |-> TRUE, content |-> <<kind>>]

\* await message.reply(...): the prompt for a description (bot.py:541), the
\* success embed (bot.py:677) or the error embed (bot.py:689)
Reply(r) ==
    /\ Scheduled(r)
    /\ runs[r].pc \in {"reply_prompt", "reply_success", "reply_error"}
    /\ channel' = Append(channel, BotMessage(runs[r].pc))
    /\ runs' = [runs EXCEPT ![r].trace = @ \o <<Call(runs[r].pc)>>,
                            ![r].pc = "done"]
    /\ UNCHANGED <<api_key, clickup_client, store, unit>>

UserMessage(content) ==
    [display_name |-> <<"A", "n", "n">>, bot |-> FALSE, content |-> content]

MaxHistory == 6

\* what was said in the channel before the mention
Histories ==
    {[i \in 1..n |-> UserMessage(<<"text", i>>)] : n \in 0..MaxHistory}
    \cup {<<UserMessage(<<"l", "o", "g", "i", "n", " ", "i", "s", " ", "b", "r", "o", "k", "e", "n">>), BotMessage("reply_success"),
            UserMessage(<<"a", "g", "a", "i", "n">>)>>}

Mentions ==
    {Mention, NickMention \o <<" ", " ">>,
     Mention \o <<" ", "d", "o", "d", "a", "j", " ", "t", "a", "s", "k", "a">>,
     Mention \o <<" ", "F", "i", "x", " ", "l", "o", "g", "i", "n", " ", "b", "u", "g", " ", "w", "i", "t", "h", " ", "s", "p", "e", "c", "i", "a", "l", " ", "c", "h", "a", "r", "s">>,
     NickMention \o <<" ", "p", "l", "e", "a", "s", "e", " ", "a", "d", "d", " ", "t", "o", " ", "B", "a", "c", "k", "l", "o", "g">>,
     <<"s", "e", "e", " ">> \o Mention \o <<" ">> \o Repeat(<<"c">>, FallbackTitleLen + 1)}

LoopMentions ==
    {Mention \o <<" ", "f", "i", "x", " ", "t", "h", "e", " ", "l", "o", "g", "i", "n", " ", "p", "a", "g", "e">>,
     NickMention \o <<" ", "d", "o", "d", "a", "j", " ", "t", "a", "s", "k", "a">>}

Init ==
    /\ api_key \in BOOLEAN
    /\ clickup_client \in
         {[list_id |-> <<"9", "0", "0">>, folder_id |-> f] : f \in {None, <<"7", "7">>}}
    /\ unit = NoUnit
    /\ store = <<>>
    /\ \E h \in Histories, m \in Mentions :
          /\ channel = Append(h, UserMessage(m))
          /\ runs = [r \in Runs |-> IF r = 1 THEN NewRun(m) ELSE IdleRun]

\* two mentions in one channel, each handled by its own run (bot.py:373)
InitLoop ==
    /\ clickup_client = [list_id |-> <<"9", "0", "0">>, folder_id |-> <<"7", "7">>]
    /\ unit = NoUnit
    /\ store = <<>>
    /\ \E m1 \in LoopMentions, m2 \in {Mention, Mention \o <<" ", "t", "o", " ", "b", "a", "c", "k", "l", "o", "g">>} :
          /\ api_key \in IF m2 = Mention THEN BOOLEAN ELSE {FALSE}
          /\ channel = <<UserMessage(m1), UserMessage(m2)>>
          /\ runs = [r \in Runs |-> IF r = 1 THEN NewRun(m1) ELSE NewRun(m2)]

Next ==
    \E r \in Runs :
        \/ EnterTyping(r) \/ Classify(r) \/ Extract(r)
        \/ Stall(r) \/ Submit(r) \/ Reply(r)

Spec == Init /\ [][Next]_vars

\* two runs on one event loop
SpecLoop == InitLoop /\ [][Next]_vars

\* filter_relevant_context on arbitrary inputs, and the pipeline that calls it
SpecContext == (InitFilter \/ Init) /\ [][NextFilter \/ Next]_vars

----------------------------------------------------------------------------
(* Properties of filter_relevant_context, under SpecFilter *)

RECURSIVE IsSubsequence(_, _)
IsSubsequence(a, b) ==
    IF a = <<>> THEN TRUE
    ELSE IF b = <<>> THEN FALSE
    ELSE IF Head(a) = Head(b) THEN IsSubsequence(Tail(a), Tail(b))
    ELSE IsSubsequence(a, Tail(b))

\* the first min(n, N) messages of the window, in order
IsPrefixOfLength(ret, window, n) ==
    /\ Len(ret) = Min(n, Len(window))
    /\ \A i \in 1..Len(ret) : ret[i] = window[i]

\* C1: the list filter_relevant_context returns is a subsequence of the
\* window: its messages are taken at strictly increasing positions of the
\* window, so none is repeated and none reordered.
C1_Subsequence ==
    FilterDone => IsSubsequence(unit.res.ret, unit.window)

\* C2: filter_relevant_context returns at most 5 messages, whatever the
\* window, the credential, the model's response or its failure, so that no
\* run holds, and no submitted task carries, more than 5 context messages.
C2_AtMostFive ==
    /\ FilterDone => Len(unit.res.ret) <= 5
    /\ \A r \in Runs : Len(runs[r].relevant_context) <= 5
    /\ \A i \in 1..Len(store) :
          Len(store[i].description.context.messages) <= 5

C2_Witness ==
    \E r \in Runs :
        /\ api_key
        /\ Len(runs[r].all_channel_messages) > 5
        /\ store # <<>>
        /\ Len(store[1].description.context.messages) = 5

\* C3: without a credential, or with an empty window, the result is exactly
\* the first min(5, N) messages of the window, in order, and the model is
\* not called.
C3_NoModelFirstFive ==
    FilterDone /\ (~api_key \/ unit.window = <<>>)
        => /\ IsPrefixOfLength(unit.res.ret, unit.window, 5)
           /\ unit.res.model_calls = 0
           /\ ~unit.res.raised

C3_Witness ==
    /\ FilterDone /\ ~api_key
    /\ Len(unit.window) > 5
    /\ Len(unit.res.ret) = 5

\* a response that is not the token 'none' and holds no numeric token
NoNumericToken(text) ==
    LET result == lower(strip(text))
    IN  /\ result # <<"n", "o", "n", "e">>
        /\ \A i \in 1..Len(split_sep(result, ",")) :
              ~isdigit(strip(split_sep(result, ",")[i]))

\* C4: with a credential and a non-empty window, the result is the first
\* min(3, N) messages whenever the model call raises and whenever the
\* response holds no numeric token and is not 'none'; the call never raises.
C4_FallbackFirstThree ==
    /\ FilterDone /\ api_key /\ unit.window # <<>>
    /\ \/ unit.outcome.kind = "raise"
       \/ unit.outcome.kind = "text" /\ NoNumericToken(unit.outcome.text)
    => /\ ~unit.res.raised
       /\ IsPrefixOfLength(unit.res.ret, unit.window, 3)

----------------------------------------------------------------------------
(* Properties of is_task_creation_command, under SpecIntent *)

WordCount(content) == Len(split(content))

OnlyWhitespace(content) == \A i \in 1..Len(content) : content[i] \in Whitespace

\* C5: an empty or whitespace-only input, and an input of more than 10
\* words that contains a technical keyword, classify as TASK_DESCRIPTION
\* (False) without any model call, with or without a credential.
C5_ShortCircuit ==
    /\ IntentDone
    /\ \/ OnlyWhitespace(unit.content)
       \/ /\ WordCount(unit.content) > 10
          /\ AnyIn(TechnicalWords, lower(unit.content))
    => /\ unit.res.ret = FALSE
       /\ unit.res.model_calls = 0
       /\ ~unit.res.raised

C5_Witness ==
    /\ IntentDone /\ api_key
    /\ WordCount(unit.content) > 10
    /\ AnyIn(TechnicalWords, lower(unit.content))
    /\ unit.outcome = Text(<<"C", "O", "M", "M", "A", "N", "D">>)
    /\ unit.res.ret = FALSE

\* the fast path of the classifier is taken
FastPath(content) ==
    WordCount(content) > 10 /\ AnyIn(TechnicalWords, lower(content))

\* C6: on the model path (credential, non-empty text, no fast path, the
\* call succeeds) the result is COMMAND exactly when the response, trimmed
\* and upper-cased, is the token COMMAND.
C6_ModelPath ==
    /\ IntentDone /\ api_key
    /\ ~OnlyWhitespace(unit.content) /\ ~FastPath(unit.content)
    /\ unit.outcome.kind = "text"
    => /\ unit.res.model_calls = 1
       /\ unit.res.ret = (upper(strip(unit.outcome.text)) = <<"C", "O", "M", "M", "A", "N", "D">>)

C6_Witness ==
    /\ IntentDone /\ api_key
    /\ unit.outcome = Text(<<" ", "C", "o", "m", "m", "a", "n", "d", "\n">>)
    /\ unit.res.model_calls = 1
    /\ unit.res.ret = TRUE

----------------------------------------------------------------------------
(* Properties of generate_smart_title, under SpecTitle *)

\* content[:50] followed by '...' when content is longer than 50
IsFallbackOf(ret, content) ==
    IF Len(content) > 50
    THEN /\ Len(ret) = 53
         /\ \A i \in 1..50 : ret[i] = content[i]
         /\ \A i \in 51..53 : ret[i] = "."
    ELSE ret = content

\* C9: generate_smart_title returns the model's trimmed response when it
\* is non-empty and at most 80 characters; otherwise (empty, longer, model
\* failure, no credential) content[:50] plus '...' when content is longer
\* than 50 characters, and content unchanged when it is not; never raises.
C9_TitleOrFallback ==
    TitleDone =>
        /\ ~unit.res.raised
        /\ IF /\ api_key /\ unit.outcome.kind = "text"
              /\ strip(unit.outcome.text) # <<>>
              /\ Len(strip(unit.outcome.text)) <= 80
           THEN unit.res.ret = strip(unit.outcome.text)
           ELSE IsFallbackOf(unit.res.ret, unit.content)

C9_Witness ==
    /\ TitleDone /\ api_key /\ unit.outcome.kind = "text"
    /\ Len(strip(unit.outcome.text)) = 81
    /\ Len(unit.content) = 51
    /\ Len(unit.res.ret) = 53

----------------------------------------------------------------------------
(* Properties of handle_task_creation, under Spec *)

Generators == {"extract_task_from_context", "generate_smart_title"}

\* the positions of the trace at which op was called
Positions(trace, op) == {i \in 1..Len(trace) : trace[i].op = op}

\* the run got as far as submitting its task
Submitted(run) == Positions(run.trace, "create_task") # {}

\* C8: in a run with non-empty cleaned content the classifier runs first,
\* and exactly one generator has run when the task is submitted:
\* extract_task_from_context if the classifier answered COMMAND,
\* generate_smart_title if it answered TASK_DESCRIPTION.
C8_ExactlyOneGenerator ==
    \A r \in Runs :
        LET t == runs[r].trace
            gens == {i \in 1..Len(t) : t[i].op \in Generators}
        IN  /\ Cardinality(gens) <= 1
            /\ \A i \in gens :
                  \E j \in 1..(i - 1) :
                      /\ t[j].op = "is_task_creation_command"
                      /\ t[j].flag = (t[i].op = "extract_task_from_context")
            /\ \A i \in Positions(t, "create_task") :
                  \E j \in gens : j < i
            /\ runs[r].pc \in {"reply_success", "reply_error", "done"}
               /\ runs[r].clean_content # <<>>
                  => Submitted(runs[r]) /\ Cardinality(gens) = 1

C8_Witness ==
    \E r \in Runs :
        /\ runs[r].pc = "done"
        /\ api_key
        /\ runs[r].is_command
        /\ Submitted(runs[r])
        /\ Positions(runs[r].trace, "extract_task_from_context") # {}
        /\ Positions(runs[r].trace, "generate_smart_title") = {}

\* C10: every task name passed to create_task is a non-empty string.
C10_NameNonEmpty ==
    \A r \in Runs :
        \A i \in Positions(runs[r].trace, "create_task") :
            runs[r].trace[i].name # <<>>


\* C11: every task name passed to create_task is at most 80 characters long.
C11_NameAtMost80 ==
    \A r \in Runs :
        \A i \in Positions(runs[r].trace, "create_task") :
            Len(runs[r].trace[i].name) <= 80

\* C13: a run submits to exactly one list: the configured backlog list when
\* the router returned the sentinel, otherwise the one sprint list the
\* router selected, and the reported label names that list.
C13_OneTargetList ==
    \A r \in Runs :
        LET run == runs[r]
            posts == Positions(run.trace, "create_task")
        IN  /\ Cardinality(posts) <= 1
            /\ \A i \in posts :
                  IF run.target_list_id = None
                  THEN /\ run.trace[i].list = clickup_client.list_id
                       /\ Contains(<<"B", "a", "c", "k", "l", "o", "g">>, run.list_description)
                  ELSE /\ run.trace[i].list = run.target_list_id
                       /\ run.trace[i].list # clickup_client.list_id
                       /\ \E k \in 1..Len(SprintLists) :
                             /\ SprintLists[k].id = run.trace[i].list
                             /\ Contains(SprintLists[k].name, run.list_description)
                             /\ ~Contains(<<"B", "a", "c", "k", "l", "o", "g">>, run.list_description)
            /\ \A i \in posts :
                  run.trace[i].flag =>
                      \E k \in 1..Len(store) :
                          /\ store[k].list_id = run.trace[i].list
                          /\ store[k].description.target_list = run.list_description

C13_Witness ==
    \E r \in Runs :
        /\ runs[r].pc = "done"
        /\ runs[r].target_list_id = <<"s", "2">>
        /\ store # <<>> /\ store[1].list_id = <<"s", "2">>
        /\ Contains(<<"S", "p", "r", "i", "n", "t", "2">>, store[1].description.target_list)

\* C14: a failed submission is neither swallowed nor retried: create_task
\* is called at most once per run, after a failed call the run sends the
\* error reply and never a success reply, and a success reply follows only
\* an accepted create_task of the same run.
C14_FailurePropagates ==
    \A r \in Runs :
        LET run == runs[r]
            posts == Positions(run.trace, "create_task")
        IN  /\ Cardinality(posts) <= 1
            /\ \A i \in posts :
                  ~run.trace[i].flag =>
                      /\ Positions(run.trace, "reply_success") = {}
                      /\ run.pc \in {"reply_error", "done"}
                      /\ run.pc = "done" =>
                            Positions(run.trace, "reply_error") # {}
            /\ \A j \in Positions(run.trace, "reply_success") :
                  \E i \in posts : i < j /\ run.trace[i].flag
            /\ run.pc = "reply_success" => \E i \in posts : run.trace[i].flag

C14_Witness ==
    \E r \in Runs :
        /\ runs[r].pc = "done"
        /\ \E i \in Positions(runs[r].trace, "create_task") : ~runs[r].trace[i].flag
        /\ Positions(runs[r].trace, "reply_error") # {}
        /\ store = <<>>

\* the message holds nothing but mention tokens and whitespace
OnlyMentions(content) ==
    strip(replace(replace(content, NickMention, <<>>), Mention, <<>>)) = <<>>

\* C15: a message that is empty once the mention tokens are removed and it
\* is trimmed is answered with one prompt and nothing else: no classifier
\* or model call, no context fetch, no folder lookup, no create_task, no
\* error reply.
C15_EmptyMessagePrompt ==
    \A r \in Runs :
        OnlyMentions(runs[r].content) =>
            /\ runs[r].pc \in {"idle", "new", "typing", "reply_prompt", "done"}
            /\ runs[r].trace = IF runs[r].pc = "done"
                               THEN <<Call("reply_prompt")>> ELSE <<>>

C15_Witness ==
    \E r \in Runs :
        /\ runs[r].content = NickMention \o <<" ", " ">>
        /\ runs[r].pc = "done"
        /\ runs[r].trace = <<Call("reply_prompt")>>

\* C20: whatever fails in the context fetch, the classifier, the extractor,
\* the filter and the title generator, a run with non-empty content
\* submits exactly one create_task request, and if the store accepts it
\* the run ends with the success reply and no error reply.
C20_DegradableStages ==
    \A r \in Runs :
        LET run == runs[r]
            posts == Positions(run.trace, "create_task")
        IN  ~OnlyMentions(run.content)
            /\ run.pc \in {"reply_success", "reply_error", "done"}
            => /\ Cardinality(posts) = 1
               /\ \A i \in posts :
                     run.trace[i].flag =>
                         /\ run.pc \in {"reply_success", "done"}
                         /\ Positions(run.trace, "reply_error") = {}
                         /\ run.pc = "done" =>
                               Positions(run.trace, "reply_success") # {}

\* every stage degraded: no credential, and the context fetch failed
C20_Witness ==
    \E r \in Runs :
        /\ ~api_key
        /\ runs[r].pc = "done"
        /\ runs[r].all_channel_messages = <<>>
        /\ Positions(runs[r].trace, "reply_success") # {}
        /\ Positions(runs[r].trace, "generate_smart_title") # {}






----------------------------------------------------------------------------
(* determine_target_list on its own *)

MaxLists == 3

\* a list of the sprint folder as the store reports it
FolderList(i) ==
    [id |-> <<"l", DecimalDigits[i + 1]>>,
     name |-> <<"S", "p", "r", "i", "n", "t", " ">> \o <<UpperAlphabet[i]>>]

InitRouter ==
    /\ api_key = FALSE
    /\ runs = NoRuns /\ channel = <<>> /\ store = <<>>
    /\ clickup_client \in {[list_id |-> <<"9", "0", "0">>, folder_id |-> f] :
                               f \in {None, <<"f", "1">>}}
    /\ \E m \in {<<"f", "i", "x", " ", "t", "h", "e", " ", "l", "o", "g", "i", "n", " ", "p", "a", "g", "e">>, <<"a", "d", "d", " ", "t", "o", " ", "B", "A", "C", "K", "L", "O", "G", " ", "n", "o", "w">>,
                 <<"B", "a", "c", "k", "l", "o", "g">>, <<"b", "a", "c", "k", " ", "l", "o", "g", " ", "i", "t">>},
          o \in {StoreError} \cup
                {StoreOk([i \in DOMAIN f |-> FolderList(f[i])]) :
                     f \in UNION {[1..k -> 1..MaxLists] : k \in 0..MaxLists}} :
          unit = [NoUnit EXCEPT !.fn = "determine_target_list", !.st = "call",
                                !.content = m, !.outcome = o]

CallRouter ==
    /\ unit.fn = "determine_target_list" /\ unit.st = "call"
    /\ unit' = [unit EXCEPT !.st = "done",
                  !.res = determine_target_list(unit.content, clickup_client,
                                                unit.outcome)]
    /\ UNCHANGED <<api_key, clickup_client, channel, store, runs>>

RouterDone == unit.fn = "determine_target_list" /\ unit.st = "done"

\* what the folder lookup yields to the router
Yielded ==
    IF clickup_client.folder_id # None /\ unit.outcome.kind = "ok"
    THEN unit.outcome.lists ELSE <<>>

\* C12: a text containing 'backlog' in any letter case gives the sentinel,
\* a label containing 'Backlog' and no folder lookup; any other text gives
\* at most one lookup and the id of the last list the lookup yielded with
\* a label containing that list's name, or the sentinel with a label
\* containing 'fallback' when the lookup yielded nothing.
C12_Router ==
    RouterDone =>
        IF \E i \in 1..Len(unit.content) :
               lower(SubSeq(unit.content, i, Min(i + 6, Len(unit.content))))
                   = <<"b", "a", "c", "k", "l", "o", "g">>
        THEN /\ unit.res.list_id = None
             /\ Contains(<<"B", "a", "c", "k", "l", "o", "g">>, unit.res.list_description)
             /\ unit.res.lookups = 0
        ELSE /\ unit.res.lookups <= 1
             /\ clickup_client.folder_id # None => unit.res.lookups = 1
             /\ IF Yielded # <<>>
                THEN /\ unit.res.list_id = Yielded[Len(Yielded)].id
                     /\ Contains(Yielded[Len(Yielded)].name,
                                 unit.res.list_description)
                ELSE /\ unit.res.list_id = None
                     /\ Contains(<<"f", "a", "l", "l", "b", "a", "c", "k">>, unit.res.list_description)

\* a folder of three lists ending in A, which no earlier element is
C12_Witness ==
    /\ RouterDone
    /\ unit.content = <<"f", "i", "x", " ", "t", "h", "e", " ", "l", "o", "g", "i", "n", " ", "p", "a", "g", "e">>
    /\ Len(Yielded) = 3
    /\ Yielded[1] # Yielded[3] /\ Yielded[2] # Yielded[3]
    /\ unit.res.list_id = <<"l", "1">>
    /\ Contains(<<"S", "p", "r", "i", "n", "t", " ", "A">>, unit.res.list_description)

----------------------------------------------------------------------------
(* find_similar_task *)

\* whether int(s) returns for a trimmed ASCII text: an optional sign, then
\* decimal digits with single underscores between them; else ValueError
IntLiteralParses(s) ==
    LET body == IF s # <<>> /\ s[1] \in {"+", "-"} THEN Tail(s) ELSE s
    IN  /\ body # <<>>
        /\ IsDecimalChar(body[1]) /\ IsDecimalChar(body[Len(body)])
        /\ \A i \in 1..Len(body) : IsDecimalChar(body[i]) \/ body[i] = "_"
        /\ \A i \in 1..(Len(body) - 1) : ~(body[i] = "_" /\ body[i + 1] = "_")

\* the value of int(s) when IntLiteralParses(s)
IntLiteral(s) ==
    LET body == IF s[1] \in {"+", "-"} THEN Tail(s) ELSE s
        magnitude == int(SelectSeq(body, IsDecimalChar))
    IN  IF s[1] = "-" THEN 0 - magnitude ELSE magnitude

\* items[index] with Python's negative indexing and no lower-bound test
SelectByIndexNoLowerBound(items, index) ==
    IF index < Len(items) /\ index >= 0 - Len(items)
    THEN <<items[(index % Len(items)) + 1]>> ELSE <<>>

\* `if 0 <= index < len(items): return items[index]`, else None
SelectByIndex(items, index) ==
    IF 0 <= index /\ index < Len(items) THEN <<items[index + 1]>> ELSE <<>>

\* The result is an Optional[dict]: <<>> for None, else the one task.
find_similar_task(task_description, tasks, key, outcome) ==
    IF tasks = <<>> \/ ~key THEN Return(<<>>, 0)
    ELSE IF \E i \in 1..Len(tasks) : tasks[i].description = None
    THEN Return(<<>>, 0)
    ELSE LET response == chat_completions_create(key, outcome)
         IN  IF response.kind # "text" THEN Return(<<>>, 1)
             ELSE LET result == lower(strip(response.text))
                  IN  IF result = <<"n", "o", "n", "e">> THEN Return(<<>>, 1)
                      ELSE IF ~IntLiteralParses(result) THEN Return(<<>>, 1)
                      ELSE Return(SelectByIndex(tasks, IntLiteral(result) - 1), 1)

MaxTasks == 3

\* a task as get_tasks_from_list reports it
Task(i) ==
    [name |-> <<"t", "a", "s", "k", " ">> \o <<DecimalDigits[i + 1]>>,
     description |-> IF i = 2 THEN <<"*", "*", "b", "o", "l", "d", "*", "*", " ", "t", "e", "x", "t">> ELSE <<>>]

InitSimilar ==
    /\ api_key \in BOOLEAN
    /\ runs = NoRuns /\ channel = <<>> /\ store = <<>>
    /\ clickup_client = [list_id |-> <<>>, folder_id |-> <<>>]
    /\ \E ts \in {[i \in 1..n |-> Task(i)] : n \in 0..MaxTasks}
                 \cup {<<Task(1), [name |-> <<"t", "a", "s", "k", " ", "2">>, description |-> None]>>},
          o \in {Raise, NullContent} \cup
                {Text(t) : t \in {<<"n", "o", "n", "e">>, <<"N", "O", "N", "E">>, <<"2">>, <<" ", "2", "\n">>, <<"1">>,
                                  <<"3">>, <<"4">>, <<"9">>, <<"0">>, <<"-", "1">>, <<"-", "2">>,
                                  <<"+", "1">>, <<"0", "2">>, <<"0", "_", "2">>, <<"1", "_">>, <<"_", "1">>,
                                  <<"1", "_", "_", "0">>, <<"t", "w", "o">>, <<"2", ".">>, <<"1", " ", "2">>, <<"+">>,
                                  <<>>, <<"sup2">>}} :
          unit = [NoUnit EXCEPT !.fn = "find_similar_task", !.st = "call",
                                !.content = <<"f", "i", "x", " ", "t", "h", "e", " ", "l", "o", "g", "i", "n", " ", "p", "a", "g", "e">>,
                                !.window = ts, !.outcome = o]

CallSimilar ==
    /\ unit.fn = "find_similar_task" /\ unit.st = "call"
    /\ unit' = [unit EXCEPT !.st = "done",
                  !.res = find_similar_task(unit.content, unit.window,
                                            api_key, unit.outcome)]
    /\ UNCHANGED <<api_key, clickup_client, channel, store, runs>>

SimilarDone == unit.fn = "find_similar_task" /\ unit.st = "done"

\* the trimmed text is a decimal integer literal of value k, 1 <= k <= 9
Denotes(text, k) ==
    LET t == strip(text)
        u == IF t # <<>> /\ t[1] = "+" THEN Tail(t) ELSE t
    IN  /\ u # <<>>
        /\ u[Len(u)] = DecimalDigits[k + 1]
        /\ \A i \in 1..(Len(u) - 1) :
              \/ u[i] = "0"
              \/ u[i] = "_" /\ i > 1 /\ u[i - 1] = "0"

\* C16: find_similar_task returns tasks[k-1] exactly when a credential is
\* configured, tasks is non-empty, the model call succeeds and its trimmed
\* response is an integer k with 1 <= k <= len(tasks); otherwise it
\* returns none; it never raises.
C16_SimilarTask ==
    SimilarDone =>
        LET tasks == unit.window
            answered == /\ api_key /\ tasks # <<>>
                        /\ unit.res.model_calls = 1
                        /\ unit.outcome.kind = "text"
            picks == {k \in 1..Len(tasks) :
                          answered /\ Denotes(unit.outcome.text, k)}
        IN  /\ ~unit.res.raised
            /\ Cardinality(picks) <= 1
            /\ \A k \in picks : unit.res.ret = <<tasks[k]>>
            /\ picks = {} => unit.res.ret = <<>>

C16_Witness ==
    /\ SimilarDone
    /\ Len(unit.window) = 3
    /\ unit.outcome = Text(<<" ", "2", "\n">>)
    /\ unit.res.ret = <<Task(2)>>

----------------------------------------------------------------------------
(* normalize_status *)

\* the table without its complete -> complete entry
status_mapping_missing_complete ==
    <<<<<<"t", "o", "d", "o">>, <<"t", "o", " ", "d", "o">>>>,
      <<<<"t", "o", " ", "d", "o">>, <<"t", "o", " ", "d", "o">>>>,
      <<<<"b", "a", "c", "k", "l", "o", "g">>, <<"t", "o", " ", "d", "o">>>>,
      <<<<"s", "t", "a", "r", "t">>, <<"i", "n", " ", "p", "r", "o", "g", "r", "e", "s", "s">>>>,
      <<<<"s", "t", "a", "r", "t", "e", "d">>, <<"i", "n", " ", "p", "r", "o", "g", "r", "e", "s", "s">>>>,
      <<<<"p", "r", "o", "g", "r", "e", "s", "s">>, <<"i", "n", " ", "p", "r", "o", "g", "r", "e", "s", "s">>>>,
      <<<<"i", "n", " ", "p", "r", "o", "g", "r", "e", "s", "s">>, <<"i", "n", " ", "p", "r", "o", "g", "r", "e", "s", "s">>>>,
      <<<<"w", "o", "r", "k", "i", "n", "g">>, <<"i", "n", " ", "p", "r", "o", "g", "r", "e", "s", "s">>>>,
      <<<<"r", "e", "v", "i", "e", "w">>, <<"i", "n", " ", "r", "e", "v", "i", "e", "w">>>>,
      <<<<"i", "n", " ", "r", "e", "v", "i", "e", "w">>, <<"i", "n", " ", "r", "e", "v", "i", "e", "w">>>>,
      <<<<"r", "e", "v", "i", "e", "w", "i", "n", "g">>, <<"i", "n", " ", "r", "e", "v", "i", "e", "w">>>>,
      <<<<"d", "o", "n", "e">>, <<"c", "o", "m", "p", "l", "e", "t", "e">>>>,
      <<<<"c", "o", "m", "p", "l", "e", "t", "e", "d">>, <<"c", "o", "m", "p", "l", "e", "t", "e">>>>,
      <<<<"f", "i", "n", "i", "s", "h", "e", "d">>, <<"c", "o", "m", "p", "l", "e", "t", "e">>>>,
      <<<<"c", "l", "o", "s", "e">>, <<"c", "o", "m", "p", "l", "e", "t", "e">>>>,
      <<<<"c", "l", "o", "s", "e", "d">>, <<"c", "o", "m", "p", "l", "e", "t", "e">>>>,
      <<<<"r", "e", "s", "o", "l", "v", "e", "d">>, <<"c", "o", "m", "p", "l", "e", "t", "e">>>>,
      <<<<"f", "i", "x", "e", "d">>, <<"c", "o", "m", "p", "l", "e", "t", "e">>>>>>

\* the dict literal, as (key, value) pairs in source order
status_mapping ==
    <<<<<<"t", "o", "d", "o">>, <<"t", "o", " ", "d", "o">>>>,
      <<<<"t", "o", " ", "d", "o">>, <<"t", "o", " ", "d", "o">>>>,
      <<<<"b", "a", "c", "k", "l", "o", "g">>, <<"t", "o", " ", "d", "o">>>>,
      <<<<"s", "t", "a", "r", "t">>, <<"i", "n", " ", "p", "r", "o", "g", "r", "e", "s", "s">>>>,
      <<<<"s", "t", "a", "r", "t", "e", "d">>, <<"i", "n", " ", "p", "r", "o", "g", "r", "e", "s", "s">>>>,
      <<<<"p", "r", "o", "g", "r", "e", "s", "s">>, <<"i", "n", " ", "p", "r", "o", "g", "r", "e", "s", "s">>>>,
      <<<<"i", "n", " ", "p", "r", "o", "g", "r", "e", "s", "s">>, <<"i", "n", " ", "p", "r", "o", "g", "r", "e", "s", "s">>>>,
      <<<<"w", "o", "r", "k", "i", "n", "g">>, <<"i", "n", " ", "p", "r", "o", "g", "r", "e", "s", "s">>>>,
      <<<<"r", "e", "v", "i", "e", "w">>, <<"i", "n", " ", "r", "e", "v", "i", "e", "w">>>>,
      <<<<"i", "n", " ", "r", "e", "v", "i", "e", "w">>, <<"i", "n", " ", "r", "e", "v", "i", "e", "w">>>>,
      <<<<"r", "e", "v", "i", "e", "w", "i", "n", "g">>, <<"i", "n", " ", "r", "e", "v", "i", "e", "w">>>>,
      <<<<"d", "o", "n", "e">>, <<"c", "o", "m", "p", "l", "e", "t", "e">>>>,
      <<<<"c", "o", "m", "p", "l", "e", "t", "e">>, <<"c", "o", "m", "p", "l", "e", "t", "e">>>>,
      <<<<"c", "o", "m", "p", "l", "e", "t", "e", "d">>, <<"c", "o", "m", "p", "l", "e", "t", "e">>>>,
      <<<<"f", "i", "n", "i", "s", "h", "e", "d">>, <<"c", "o", "m", "p", "l", "e", "t", "e">>>>,
      <<<<"c", "l", "o", "s", "e">>, <<"c", "o", "m", "p", "l", "e", "t", "e">>>>,
      <<<<"c", "l", "o", "s", "e", "d">>, <<"c", "o", "m", "p", "l", "e", "t", "e">>>>,
      <<<<"r", "e", "s", "o", "l", "v", "e", "d">>, <<"c", "o", "m", "p", "l", "e", "t", "e">>>>,
      <<<<"f", "i", "x", "e", "d">>, <<"c", "o", "m", "p", "l", "e", "t", "e">>>>>>

\* a lookup that accepts any input containing a key
normalize_status_substring(status_input) ==
    LET normalized == strip(lower(status_input))
        hits == {i \in 1..Len(status_mapping) :
                     Contains(status_mapping[i][1], normalized)}
    IN  IF hits = {} THEN Return(None, 0)
        ELSE Return(status_mapping[CHOOSE i \in hits : \A j \in hits : i <= j][2], 0)

\* status_mapping.get(status_input.lower().strip())
normalize_status(status_input) ==
    LET normalized == strip(lower(status_input))
        hits == {i \in 1..Len(status_mapping) :
                     status_mapping[i][1] = normalized}
    IN  IF hits = {} THEN Return(None, 0)
        ELSE Return(status_mapping[CHOOSE i \in hits : TRUE][2], 0)

\* each key as written, upper-cased, capitalised, padded, extended by a
\* letter, cut by a letter and with its spaces doubled, and a few others
InitStatus ==
    /\ api_key = FALSE
    /\ runs = NoRuns /\ channel = <<>> /\ store = <<>>
    /\ clickup_client = [list_id |-> <<>>, folder_id |-> <<>>]
    /\ \E s \in UNION {LET k == status_mapping[i][1]
                       IN  {k, upper(k), <<UpperChar(k[1])>> \o Tail(k),
                            <<" ">> \o k \o <<"\n">>, upper(k) \o <<" ">>,
                            k \o <<"x">>, <<"x">> \o k, SubSeq(k, 1, Len(k) - 1),
                            replace(k, <<" ">>, <<" ", " ">>), replace(k, <<" ">>, <<"-">>),
                            replace(k, <<" ">>, <<>>)} :
                       i \in 1..Len(status_mapping)}
                \cup {<<>>, <<" ">>, <<"i", "n", "-", "p", "r", "o", "g", "r", "e", "s", "s">>, <<"C", "l", "o", "s", "e", "d", " ">>, <<"n", "o", "t", " ", "d", "o", "n", "e">>,
                      <<"n", "o", "n", "e">>} :
          unit = [NoUnit EXCEPT !.fn = "normalize_status", !.st = "call",
                                !.content = s]

CallStatus ==
    /\ unit.fn = "normalize_status" /\ unit.st = "call"
    /\ unit' = [unit EXCEPT !.st = "done",
                  !.res = normalize_status(unit.content)]
    /\ UNCHANGED <<api_key, clickup_client, channel, store, runs>>

StatusDone == unit.fn = "normalize_status" /\ unit.st = "done"

\* C17: normalize_status lower-cases and trims its input and then looks it
\* up exactly: the keys of each group give that group's status, every
\* other text gives none ('Closed ' gives 'complete', 'in-progress' none).
C17_ExactTable ==
    StatusDone =>
        LET n == strip(lower(unit.content))
        IN  /\ ~unit.res.raised
            /\ unit.res.ret =
                  CASE n \in {<<"t", "o", "d", "o">>, <<"t", "o", " ", "d", "o">>, <<"b", "a", "c", "k", "l", "o", "g">>} -> <<"t", "o", " ", "d", "o">>
                    [] n \in {<<"s", "t", "a", "r", "t">>, <<"s", "t", "a", "r", "t", "e", "d">>, <<"p", "r", "o", "g", "r", "e", "s", "s">>, <<"i", "n", " ", "p", "r", "o", "g", "r", "e", "s", "s">>, <<"w", "o", "r", "k", "i", "n", "g">>} -> <<"i", "n", " ", "p", "r", "o", "g", "r", "e", "s", "s">>
                    [] n \in {<<"r", "e", "v", "i", "e", "w">>, <<"i", "n", " ", "r", "e", "v", "i", "e", "w">>, <<"r", "e", "v", "i", "e", "w", "i", "n", "g">>} -> <<"i", "n", " ", "r", "e", "v", "i", "e", "w">>
                    [] n \in {<<"d", "o", "n", "e">>, <<"c", "o", "m", "p", "l", "e", "t", "e">>, <<"c", "o", "m", "p", "l", "e", "t", "e", "d">>, <<"f", "i", "n", "i", "s", "h", "e", "d">>, <<"c", "l", "o", "s", "e">>, <<"c", "l", "o", "s", "e", "d">>, <<"r", "e", "s", "o", "l", "v", "e", "d">>, <<"f", "i", "x", "e", "d">>} -> <<"c", "o", "m", "p", "l", "e", "t", "e">>
                    [] OTHER -> None
            /\ unit.content = <<"C", "l", "o", "s", "e", "d", " ">> => unit.res.ret = <<"c", "o", "m", "p", "l", "e", "t", "e">>
            /\ unit.content = <<"i", "n", "-", "p", "r", "o", "g", "r", "e", "s", "s">> => unit.res.ret = None

C17_Witness ==
    /\ StatusDone
    /\ unit.content = <<"C", "l", "o", "s", "e", "d", " ">>
    /\ unit.res.ret = <<"c", "o", "m", "p", "l", "e", "t", "e">>

----------------------------------------------------------------------------
(* match_member_by_name *)

\* the substring test on the display name alone
NameMatchesDisplayOnly(name_query, member) ==
    Contains(lower(name_query), lower(member.display_name))

\* name_query.lower() in member.display_name.lower() or ... in member.name.lower()
NameMatches(name_query, member) ==
    \/ Contains(lower(name_query), lower(member.display_name))
    \/ Contains(lower(name_query), lower(member.name))

\* The result is an Optional[Member]: <<>> for None, else the one member.
match_member_by_name(name_query, members, key, outcome) ==
    IF members = <<>> THEN Return(<<>>, 0)
    ELSE IF ~key
    THEN LET hits == {i \in 1..Len(members) : NameMatches(name_query, members[i])}
         IN  IF hits = {} THEN Return(<<>>, 0)
             ELSE Return(<<members[CHOOSE i \in hits : \A j \in hits : i <= j]>>, 0)
    ELSE LET response == chat_completions_create(key, outcome)
         IN  IF response.kind # "text" THEN Return(<<>>, 1)
             ELSE LET result == lower(strip(response.text))
                  IN  IF result = <<"n", "o", "n", "e">> THEN Return(<<>>, 1)
                      ELSE IF ~IntLiteralParses(result) THEN Return(<<>>, 1)
                      ELSE Return(SelectByIndex(members, IntLiteral(result) - 1), 1)

MaxMembers == 2

\* guild members: display name and user name
Members ==
    <<[display_name |-> <<"A", "N", "N", "A">>, name |-> <<"a", "n", "n", "a", "9", "9">>],
      [display_name |-> <<"A", "n", "n", " ", "B">>, name |-> <<"a", "n", "n", "b">>],
      [display_name |-> <<"B", "o", "b">>, name |-> <<"R", "o", "b", "e", "r", "t">>]>>

InitMember ==
    /\ api_key \in BOOLEAN
    /\ runs = NoRuns /\ channel = <<>> /\ store = <<>>
    /\ clickup_client = [list_id |-> <<>>, folder_id |-> <<>>]
    /\ \E q \in {<<"a", "n", "n">>, <<"A", "N", "N", " ", "B">>, <<"r", "o", "b">>, <<"z", "e", "d">>, <<"b", "o", "b">>, <<>>},
          f \in UNION {[1..k -> 1..Len(Members)] : k \in 0..MaxMembers},
          o \in {Raise, NullContent} \cup
                {Text(t) : t \in {<<"n", "o", "n", "e">>, <<"1">>, <<" ", "2", " ">>, <<"3">>, <<"0">>,
                                  <<"-", "1">>, <<"9">>, <<"t", "w", "o">>, <<"1", ".">>}} :
          unit = [NoUnit EXCEPT !.fn = "match_member_by_name", !.st = "call",
                                !.content = q, !.outcome = o,
                                !.window = [i \in DOMAIN f |-> Members[f[i]]]]

CallMember ==
    /\ unit.fn = "match_member_by_name" /\ unit.st = "call"
    /\ unit' = [unit EXCEPT !.st = "done",
                  !.res = match_member_by_name(unit.content, unit.window,
                                               api_key, unit.outcome)]
    /\ UNCHANGED <<api_key, clickup_client, channel, store, runs>>

MemberDone == unit.fn = "match_member_by_name" /\ unit.st = "done"

\* text contains query when letter case is ignored
ContainsIgnoringCase(query, text) ==
    \E at \in 1..(Len(text) + 1) :
        /\ at + Len(query) - 1 <= Len(text)
        /\ \A i \in 1..Len(query) :
              LowerChar(text[at + i - 1]) = LowerChar(query[i])

\* C18: match_member_by_name returns none for an empty member list; with
\* no credential it makes no model call and returns the first member in
\* list order whose display name or user name contains the query, letter
\* case ignored, or none when there is no such member; with a credential
\* a failing, non-numeric or out-of-range response gives none; it never
\* raises.
C18_MemberMatch ==
    MemberDone =>
        LET members == unit.window
            matches == {i \in 1..Len(members) :
                            \/ ContainsIgnoringCase(unit.content, members[i].display_name)
                            \/ ContainsIgnoringCase(unit.content, members[i].name)}
        IN  /\ ~unit.res.raised
            /\ members = <<>> => unit.res.ret = <<>> /\ unit.res.model_calls = 0
            /\ members # <<>> /\ ~api_key =>
                  /\ unit.res.model_calls = 0
                  /\ matches = {} => unit.res.ret = <<>>
                  /\ \A i \in matches :
                        (\A j \in matches : i <= j) => unit.res.ret = <<members[i]>>
            /\ members # <<>> /\ api_key =>
                  \/ \E k \in 1..Len(members) :
                        /\ unit.outcome.kind = "text"
                        /\ Denotes(unit.outcome.text, k)
                        /\ unit.res.ret = <<members[k]>>
                  \/ /\ unit.outcome.kind = "text" =>
                           \A k \in 1..Len(members) : ~Denotes(unit.outcome.text, k)
                     /\ unit.res.ret = <<>>

\* no credential and two members matching 'ann': the first is returned
C18_Witness ==
    /\ MemberDone /\ ~api_key
    /\ unit.content = <<"a", "n", "n">>
    /\ unit.window = <<Members[2], Members[1]>>
    /\ unit.res.ret = <<Members[2]>>

----------------------------------------------------------------------------
(* get_channel_context on its own *)

\* channels of up to MaxHistory messages, each by a user or by a bot
InitContext ==
    /\ api_key = FALSE
    /\ runs = NoRuns /\ store = <<>>
    /\ clickup_client = [list_id |-> <<>>, folder_id |-> <<>>]
    /\ channel \in {[i \in DOMAIN f |->
                        [display_name |-> IF f[i] THEN <<"B", "o", "t">> ELSE <<"A", "n", "n">>,
                         bot |-> f[i],
                         content |-> <<"m">> \o <<DecimalDigits[i + 1]>>]] :
                    f \in UNION {[1..n -> BOOLEAN] : n \in 0..MaxHistory}}
    /\ \E l \in {1, 2, 3, ExtractContextLimit, ContextLimit}, x \in BOOLEAN :
          unit = [NoUnit EXCEPT !.fn = "get_channel_context", !.st = "call",
                                !.limit = l, !.fails = x]

CallContext ==
    /\ unit.fn = "get_channel_context" /\ unit.st = "call"
    /\ unit' = [unit EXCEPT !.st = "done",
                  !.res = Return(get_channel_context(channel, unit.limit,
                                                     unit.fails), 0)]
    /\ UNCHANGED <<api_key, clickup_client, channel, store, runs>>

ContextDone == unit.fn = "get_channel_context" /\ unit.st = "done"

\* the channel's most recent `limit` messages, oldest first
MostRecent(limit) ==
    SubSeq(channel, IF Len(channel) > limit THEN Len(channel) - limit + 1 ELSE 1,
           Len(channel))

\* C19: get_channel_context returns the texts of the non-bot messages among
\* the channel's most recent `limit` messages, oldest first, never the
\* text of a bot's message, and the empty sequence when retrieval fails;
\* it never raises.
C19_ChannelContext ==
    ContextDone =>
        LET ByUser(m) == ~m.bot
            kept == SelectSeq(MostRecent(unit.limit), ByUser)
        IN  /\ ~unit.res.raised
            /\ unit.fails => unit.res.ret = <<>>
            /\ ~unit.fails =>
                  /\ Len(unit.res.ret) = Len(kept)
                  /\ \A i \in 1..Len(kept) :
                        unit.res.ret[i] =
                            kept[i].display_name \o <<":", " ">> \o kept[i].content
            /\ \A i \in 1..Len(unit.res.ret), j \in 1..Len(channel) :
                  channel[j].bot =>
                      unit.res.ret[i] # channel[j].display_name \o <<":", " ">> \o channel[j].content

\* five messages, a bot's among the last three, limit 3: two texts returned
C19_Witness ==
    /\ ContextDone /\ ~unit.fails
    /\ unit.limit = 3 /\ Len(channel) = 5
    /\ ~channel[3].bot /\ channel[4].bot /\ ~channel[5].bot
    /\ unit.res.ret = <<<<"A", "n", "n", ":", " ", "m", "3">>, <<"A", "n", "n", ":", " ", "m", "5">>>>

----------------------------------------------------------------------------
(* ClickUpClient: the operations on the remote store *)

\* data.get("tasks", []), or [] when the request fails (bot.py:115-124)
get_tasks_from_list(list_id, outcome) ==
    IF outcome.kind = "error" THEN <<>> ELSE outcome.lists

get_tasks_from_newest_sprint(client, lists_outcome, tasks_outcome) ==
    LET newest_list == get_newest_list_from_folder(client, lists_outcome)
    IN  IF newest_list = <<>> THEN <<>>
        ELSE get_tasks_from_list(newest_list[1].id, tasks_outcome)

\* the request of create_task: a failed one is logged and re-raised
create_task(client, name, list_id, outcome) ==
    IF outcome.kind = "error" THEN Raised(0)
    ELSE Return([list_id |-> create_task_target(client, list_id),
                 name |-> name], 0)

update_task_status(task_id, status, outcome) ==
    IF outcome.kind = "error" THEN Raised(0)
    ELSE Return([id |-> task_id, status |-> status], 0)

assign_task(task_id, assignee_id, outcome) ==
    IF outcome.kind = "error" THEN Raised(0)
    ELSE Return([id |-> task_id, assignee |-> assignee_id], 0)

StoreOperations ==
    {"get_folder_lists", "get_tasks_from_list", "create_task",
     "update_task_status", "assign_task"}

\* one operation, answered with a 2xx response or with a non-2xx one
InitStore ==
    /\ api_key = FALSE
    /\ runs = NoRuns /\ channel = <<>> /\ store = <<>>
    /\ clickup_client \in {[list_id |-> <<"9", "0", "0">>, folder_id |-> f] :
                               f \in {None, <<"7", "7">>}}
    /\ \E op \in StoreOperations,
          o \in {StoreError, StoreOk(<<>>), StoreOk(SprintLists)} :
          unit = [NoUnit EXCEPT !.fn = op, !.st = "call", !.outcome = o]

CallStore ==
    /\ unit.fn \in StoreOperations /\ unit.st = "call"
    /\ unit' = [unit EXCEPT !.st = "done",
          !.res = CASE unit.fn = "get_folder_lists" ->
                         Return(get_folder_lists(clickup_client, unit.outcome), 0)
                    [] unit.fn = "get_tasks_from_list" ->
                         Return(get_tasks_from_list(<<"s", "2">>, unit.outcome), 0)
                    [] unit.fn = "create_task" ->
                         create_task(clickup_client, <<"F", "i", "x", " ", "l", "o", "g", "i", "n">>, None,
                                     unit.outcome)
                    [] unit.fn = "update_task_status" ->
                         update_task_status(<<"t", "1">>, <<"c", "o", "m", "p", "l", "e", "t", "e">>, unit.outcome)
                    [] unit.fn = "assign_task" ->
                         assign_task(<<"t", "1">>, <<"7">>, unit.outcome)]
    /\ UNCHANGED <<api_key, clickup_client, channel, store, runs>>

\* C23: every store operation raises to its caller when the store answers
\* with a non-2xx response.
C23_StoreFailureRaises ==
    unit.fn \in StoreOperations /\ unit.st = "done"
    /\ unit.outcome.kind = "error"
    /\ (unit.fn = "get_folder_lists" => Truthy(clickup_client.folder_id))
    => unit.res.raised

----------------------------------------------------------------------------
(* extract_task_from_context on its own *)

InitExtract ==
    /\ api_key \in BOOLEAN
    /\ runs = NoRuns /\ channel = <<>> /\ store = <<>>
    /\ clickup_client = [list_id |-> <<>>, folder_id |-> <<>>]
    /\ \E w \in {<<>>, <<<<"A", "n", "n", ":", " ", "l", "o", "g", "i", "n", " ", "i", "s", " ", "b", "r", "o", "k", "e", "n">>, <<"B", "o", "b", ":", " ", "T", "I", "T", "L", "E", ":", " ", "n", "o", "t", " ", "m", "e">>>>},
          c \in {<<"d", "o", "d", "a", "j", " ", "t", "a", "s", "k", "a">>, <<"t", "a", "s", "k", " ", "z", " ", "t", "e", "g", "o">>},
          o \in ExtractOutcomes \cup
                {Text(t) : t \in {<<>>, <<" ", "T", "I", "T", "L", "E", ":", " ", "i", "n", "d", "e", "n", "t", "e", "d">>, <<"t", "i", "t", "l", "e", ":", " ", "l", "o", "w", "e", "r">>,
                                  <<"D", "E", "S", "C", "R", "I", "P", "T", "I", "O", "N", ":", " ", "d", "\n", "T", "I", "T", "L", "E", ":", " ", "t">>,
                                  <<"T", "I", "T", "L", "E", ":", " ", "t", "\n", "\n", "D", "E", "S", "C", "R", "I", "P", "T", "I", "O", "N", ":", " ", "d", "\n", "t", "h", "a", "n", "k", "s">>,
                                  <<"H", "e", "r", "e", ":", " ", "T", "I", "T", "L", "E", ":", " ", "x", "\n", "D", "E", "S", "C", "R", "I", "P", "T", "I", "O", "N", ":">>}} :
          unit = [NoUnit EXCEPT !.fn = "extract_task_from_context",
                                !.st = "call", !.content = c, !.window = w,
                                !.outcome = o]

CallExtract ==
    /\ unit.fn = "extract_task_from_context" /\ unit.st = "call"
    /\ unit' = [unit EXCEPT !.st = "done",
                  !.res = extract_task_from_context(unit.window, unit.content,
                                                    api_key, unit.outcome)]
    /\ UNCHANGED <<api_key, clickup_client, channel, store, runs>>

ExtractDone == unit.fn = "extract_task_from_context" /\ unit.st = "done"

\* the text of the last of the lines that start with the label, without
\* the label and trimmed, or the default when no line starts with it
Labelled(lines, label, default) ==
    LET at == {i \in 1..Len(lines) : startswith(lines[i], label)}
    IN  IF at = {} THEN default
        ELSE strip(replace(lines[CHOOSE i \in at : \A j \in at : j <= i],
                           label, <<>>))

\* C25: extract_task_from_context never raises and returns a pair: the
\* placeholder title and 'No AI analysis available' without a credential;
\* on a model response the title of its TITLE: line and the description of
\* its DESCRIPTION: line, other lines ignored, the placeholder title or the
\* command text standing in for a missing label; on any error the
\* placeholder title and the command text.
C25_ExtractFallbacks ==
    ExtractDone =>
        /\ ~unit.res.raised
        /\ Len(unit.res.ret) = 2
        /\ IF ~api_key
           THEN unit.res.ret = <<<<"T", "a", "s", "k", " ", "f", "r", "o", "m", " ", "c", "o", "n", "v", "e", "r", "s", "a", "t", "i", "o", "n", " ", "c", "o", "n", "t", "e", "x", "t">>,
                                 <<"N", "o", " ", "A", "I", " ", "a", "n", "a", "l", "y", "s", "i", "s", " ", "a", "v", "a", "i", "l", "a", "b", "l", "e">>>>
           ELSE IF unit.outcome.kind # "text"
           THEN unit.res.ret = <<<<"T", "a", "s", "k", " ", "f", "r", "o", "m", " ", "c", "o", "n", "v", "e", "r", "s", "a", "t", "i", "o", "n", " ", "c", "o", "n", "t", "e", "x", "t">>, unit.content>>
           ELSE LET lines == split_sep(unit.outcome.text, "\n")
                IN  /\ unit.res.ret[1] =
                          Labelled(lines, <<"T", "I", "T", "L", "E", ":">>, <<"T", "a", "s", "k", " ", "f", "r", "o", "m", " ", "c", "o", "n", "v", "e", "r", "s", "a", "t", "i", "o", "n", " ", "c", "o", "n", "t", "e", "x", "t">>)
                    /\ unit.res.ret[2] =
                          Labelled(lines, <<"D", "E", "S", "C", "R", "I", "P", "T", "I", "O", "N", ":">>, unit.content)

\* a response with both labels, a blank line and a closing remark
C25_Witness ==
    /\ ExtractDone /\ api_key
    /\ unit.outcome = Text(<<"T", "I", "T", "L", "E", ":", " ", "t", "\n", "\n", "D", "E", "S", "C", "R", "I", "P", "T", "I", "O", "N", ":", " ", "d", "\n", "t", "h", "a", "n", "k", "s">>)
    /\ unit.res.ret = <<<<"t">>, <<"d">>>>

----------------------------------------------------------------------------
(* update_command and assign_command *)

\* what a command did: the write requests it sent to the store, in order,
\* and the message it ended with
Outcome(writes, reply) == [writes |-> writes, reply |-> reply]

Write(op, task_id, value, response) ==
    [op |-> op, id |-> task_id, value |-> value, accepted |-> ~response.raised]

\* update_command that passes an unrecognised status on as it was typed
update_command_raw_status(task_description, status, client, key, a) ==
    LET n == normalize_status(status).ret
        new_status == IF n = None THEN status ELSE n
    IN  IF task_description = <<>> THEN Outcome(<<>>, "no_description")
        ELSE LET tasks == get_tasks_from_newest_sprint(client, a.lists, a.tasks)
             IN  IF tasks = <<>> THEN Outcome(<<>>, "no_tasks")
                 ELSE LET similar_task ==
                            find_similar_task(task_description, tasks, key, a.similar).ret
                      IN  IF similar_task = <<>> THEN Outcome(<<>>, "no_similar")
                          ELSE LET u == update_task_status(similar_task[1].id,
                                                           new_status, a.write)
                               IN  Outcome(<<Write("update_task_status",
                                                   similar_task[1].id, new_status, u)>>,
                                           IF u.raised THEN "error" ELSE "updated")

\* a is what the store and the model answer: a.lists to the folder lookup,
\* a.tasks to the task listing, a.similar to find_similar_task's model
\* call, a.write to the write request
update_command(task_description, status, client, key, a) ==
    LET new_status == normalize_status(status).ret
    IN  IF new_status = None THEN Outcome(<<>>, "invalid_status")
        ELSE IF task_description = <<>> THEN Outcome(<<>>, "no_description")
        ELSE LET tasks == get_tasks_from_newest_sprint(client, a.lists, a.tasks)
             IN  IF tasks = <<>> THEN Outcome(<<>>, "no_tasks")
                 ELSE LET similar_task ==
                            find_similar_task(task_description, tasks, key, a.similar).ret
                      IN  IF similar_task = <<>> THEN Outcome(<<>>, "no_similar")
                          ELSE LET u == update_task_status(similar_task[1].id,
                                                           new_status, a.write)
                               IN  Outcome(<<Write("update_task_status",
                                                   similar_task[1].id, new_status, u)>>,
                                           IF u.raised THEN "error" ELSE "updated")

\* a.member is what the model answers to match_member_by_name
assign_command(task_description, member_name, members, client, key, a) ==
    LET tasks == get_tasks_from_newest_sprint(client, a.lists, a.tasks)
    IN  IF tasks = <<>> THEN Outcome(<<>>, "no_tasks")
        ELSE LET similar_task ==
                   find_similar_task(task_description, tasks, key, a.similar).ret
             IN  IF similar_task = <<>> THEN Outcome(<<>>, "no_similar")
                 ELSE LET member == match_member_by_name(member_name, members,
                                                         key, a.member).ret
                      IN  IF member = <<>> THEN Outcome(<<>>, "no_member")
                          ELSE LET u == assign_task(similar_task[1].id,
                                                    member[1].id, a.write)
                               IN  Outcome(<<Write("assign_task", similar_task[1].id,
                                                   member[1].id, u)>>,
                                           IF u.raised THEN "error" ELSE "assigned")

\* the tasks of the newest sprint list
SprintTasks ==
    <<[id |-> <<"t", "1">>, name |-> <<"l", "o", "g", "i", "n", " ", "b", "u", "g">>, description |-> <<>>],
      [id |-> <<"t", "2">>, name |-> <<"d", "o", "c", "s">>, description |-> <<"*", "*", "w", "r", "i", "t", "e", "*", "*", " ", "d", "o", "c", "s">>]>>

GuildMembers ==
    <<[id |-> <<"7">>, display_name |-> <<"A", "n", "n", " ", "B">>, name |-> <<"a", "n", "n", "b">>],
      [id |-> <<"8">>, display_name |-> <<"B", "o", "b">>, name |-> <<"R", "o", "b", "e", "r", "t">>]>>

\* the answers of the store and of the model during one command
CommandAnswers ==
    [lists : {StoreError, StoreOk(SprintLists)},
     tasks : {StoreError, StoreOk(<<>>), StoreOk(SprintTasks)},
     similar : {Raise, Text(<<"n", "o", "n", "e">>), Text(<<"2">>), Text(<<"9">>)},
     member : {Raise, Text(<<"n", "o", "n", "e">>), Text(<<"1">>)},
     write : {StoreError, StoreOk(<<>>)}]

\* one /update or one /assign command
InitCommand ==
    /\ api_key \in BOOLEAN
    /\ runs = NoRuns /\ channel = <<>> /\ store = <<>>
    /\ clickup_client \in {[list_id |-> <<"9", "0", "0">>, folder_id |-> f] :
                               f \in {None, <<"7", "7">>}}
    /\ \E a \in CommandAnswers :
          \/ \E d \in {<<>>, <<"w", "r", "i", "t", "e", " ", "t", "h", "e", " ", "d", "o", "c", "s">>},
                s \in {<<"C", "l", "o", "s", "e", "d", " ">>, <<"i", "n", "-", "p", "r", "o", "g", "r", "e", "s", "s">>, <<>>} :
                /\ a.member = Raise
                /\ unit = [NoUnit EXCEPT
                             !.fn = "update_command", !.st = "call",
                             !.content = d,
                             !.args = [answers |-> a, status |-> s,
                                       member_name |-> <<>>, members |-> <<>>]]
          \/ \E n \in {<<"a", "n", "n">>, <<"z", "e", "d">>}, ms \in {<<>>, GuildMembers} :
                unit = [NoUnit EXCEPT
                          !.fn = "assign_command", !.st = "call",
                          !.content = <<"w", "r", "i", "t", "e", " ", "t", "h", "e", " ", "d", "o", "c", "s">>,
                          !.args = [answers |-> a, status |-> <<>>,
                                    member_name |-> n, members |-> ms]]

CallCommand ==
    /\ unit.fn \in {"update_command", "assign_command"} /\ unit.st = "call"
    /\ unit' = [unit EXCEPT !.st = "done",
          !.res = IF unit.fn = "update_command"
                  THEN update_command(unit.content, unit.args.status,
                                      clickup_client, api_key, unit.args.answers)
                  ELSE assign_command(unit.content, unit.args.member_name,
                                      unit.args.members, clickup_client,
                                      api_key, unit.args.answers)]
    /\ UNCHANGED <<api_key, clickup_client, channel, store, runs>>

CommandDone == unit.fn \in {"update_command", "assign_command"} /\ unit.st = "done"

\* the tasks the newest sprint list returned to the command
ReturnedTasks ==
    IF /\ clickup_client.folder_id # None
       /\ unit.args.answers.lists.kind = "ok" /\ unit.args.answers.lists.lists # <<>>
       /\ unit.args.answers.tasks.kind = "ok"
    THEN unit.args.answers.tasks.lists ELSE <<>>

\* the task the model's answer to find_similar_task points at, if any
MatchedTasks ==
    {t \in {ReturnedTasks[i] : i \in 1..Len(ReturnedTasks)} :
        /\ api_key /\ unit.args.answers.similar.kind = "text"
        /\ \E k \in 1..Len(ReturnedTasks) :
              Denotes(unit.args.answers.similar.text, k) /\ ReturnedTasks[k] = t}

\* the members match_member_by_name can have returned
MatchedMembers ==
    {m \in {unit.args.members[i] : i \in 1..Len(unit.args.members)} :
        IF api_key
        THEN /\ unit.args.answers.member.kind = "text"
             /\ \E k \in 1..Len(unit.args.members) :
                   Denotes(unit.args.answers.member.text, k) /\ unit.args.members[k] = m
        ELSE \/ ContainsIgnoringCase(unit.args.member_name, m.display_name)
             \/ ContainsIgnoringCase(unit.args.member_name, m.name)}

\* C26: a command writes to the store at most once. update_command writes
\* only a canonical status, and only when the newest sprint list returned
\* tasks and find_similar_task returned one of them; assign_command writes
\* only when a task and then a member were matched; a command that does
\* not write ends with a message to the user that names what was missing.
C26_GuardedWrites ==
    CommandDone =>
        LET w == unit.res.writes
        IN  /\ Len(w) <= 1
            /\ \A i \in 1..Len(w) :
                  /\ ReturnedTasks # <<>>
                  /\ \E t \in MatchedTasks : w[i].id = t.id
                  /\ IF unit.fn = "update_command"
                     THEN /\ w[i].op = "update_task_status"
                          /\ w[i].value \in {<<"t", "o", " ", "d", "o">>, <<"i", "n", " ", "p", "r", "o", "g", "r", "e", "s", "s">>,
                                             <<"i", "n", " ", "r", "e", "v", "i", "e", "w">>, <<"c", "o", "m", "p", "l", "e", "t", "e">>}
                          /\ unit.content # <<>>
                     ELSE /\ w[i].op = "assign_task"
                          /\ \E m \in MatchedMembers : w[i].value = m.id
                  /\ unit.res.reply =
                        IF w[i].accepted
                        THEN (IF unit.fn = "update_command" THEN "updated"
                              ELSE "assigned")
                        ELSE "error"
            /\ w = <<>> =>
                  /\ unit.res.reply \in {"invalid_status", "no_description",
                                         "no_tasks", "no_similar", "no_member"}
                  /\ unit.res.reply = "no_tasks" => ReturnedTasks = <<>>
                  /\ unit.res.reply = "no_similar" => MatchedTasks = {}
                  /\ unit.res.reply = "no_member" => MatchedMembers = {}
                  /\ unit.res.reply = "invalid_status" =>
                        unit.args.status \in {<<"i", "n", "-", "p", "r", "o", "g", "r", "e", "s", "s">>, <<>>}
                  /\ unit.res.reply = "no_description" => unit.content = <<>>

\* /update 'write the docs' 'Closed ' with the model answering 2
C26_Witness ==
    /\ CommandDone /\ unit.fn = "update_command"
    /\ unit.args.status = <<"C", "l", "o", "s", "e", "d", " ">>
    /\ unit.res.writes = <<[op |-> "update_task_status", id |-> <<"t", "2">>,
                            value |-> <<"c", "o", "m", "p", "l", "e", "t", "e">>, accepted |-> TRUE]>>
    /\ unit.res.reply = "updated"

----------------------------------------------------------------------------
(* on_message *)

CommandPrefix == <<"!">>

\* on_message without the test on the author
on_message_any_author(message) ==
    [processed |-> TRUE,
     started |-> /\ ~startswith(message.content, CommandPrefix)
                 /\ message.mentions_bot]

\* processed: bot.process_commands was reached; started: the handler
\* handle_task_creation was started for the message
on_message(message) ==
    IF message.author = "bot.user"
    THEN [processed |-> FALSE, started |-> FALSE]
    ELSE [processed |-> TRUE,
          started |-> /\ ~startswith(message.content, CommandPrefix)
                      /\ message.mentions_bot]

\* a message by the bot itself, by a user or by another bot; mentions_bot
\* is `bot.user in message.mentions`, whatever the text says
InitMessage ==
    /\ api_key = FALSE
    /\ runs = NoRuns /\ channel = <<>> /\ store = <<>>
    /\ clickup_client = [list_id |-> <<>>, folder_id |-> <<>>]
    /\ \E author \in {"bot.user", "user", "other bot"},
          content \in {<<>>, <<"!", "h", "e", "l", "p">>, <<"!", "u", "p", "d", "a", "t", "e", " ", "d", "o", "c", "s", " ", "d", "o", "n", "e", " ">> \o Mention,
                       Mention \o <<" ", "f", "i", "x", " ", "t", "h", "e", " ", "l", "o", "g", "i", "n", " ", "p", "a", "g", "e">>, <<" ", "!", "h", "e", "l", "p">>,
                       <<"h", "e", "l", "l", "o">>, <<"T", "a", "s", "k", " ", "c", "r", "e", "a", "t", "e", "d", "!">>},
          mentions_bot \in BOOLEAN :
          unit = [NoUnit EXCEPT !.fn = "on_message", !.st = "call",
                                !.args = [author |-> author, content |-> content,
                                          mentions_bot |-> mentions_bot]]

CallMessage ==
    /\ unit.fn = "on_message" /\ unit.st = "call"
    /\ unit' = [unit EXCEPT !.st = "done", !.res = on_message(unit.args)]
    /\ UNCHANGED <<api_key, clickup_client, channel, store, runs>>

MessageDone == unit.fn = "on_message" /\ unit.st = "done"

\* C27: on_message starts a task-creation run exactly when the message is
\* not the bot's own, its text does not start with '!' and the bot is
\* among its mentions; a message of the bot itself starts no run and does
\* not reach command processing.
C27_OwnMessagesIgnored ==
    MessageDone =>
        /\ unit.res.started <=>
              /\ unit.args.author # "bot.user"
              /\ (unit.args.content = <<>> \/ unit.args.content[1] # "!")
              /\ unit.args.mentions_bot
        /\ unit.args.author = "bot.user" =>
              ~unit.res.started /\ ~unit.res.processed

\* the bot's own reply, mentioning the bot, starts nothing
C27_Witness ==
    /\ MessageDone
    /\ unit.args.author = "bot.user" /\ unit.args.mentions_bot
    /\ unit.args.content = Mention \o <<" ", "f", "i", "x", " ", "t", "h", "e", " ", "l", "o", "g", "i", "n", " ", "p", "a", "g", "e">>
    /\ ~unit.res.started /\ ~unit.res.processed

----------------------------------------------------------------------------
(* parse_update_command *)

endswith(s, suffix) ==
    Len(s) >= Len(suffix)
    /\ SubSeq(s, Len(s) - Len(suffix) + 1, Len(s)) = suffix

\* the status keywords in the order the loop tries them
valid_statuses ==
    <<<<"i", "n", " ", "p", "r", "o", "g", "r", "e", "s", "s">>,
      <<"i", "n", " ", "r", "e", "v", "i", "e", "w">>,
      <<"t", "o", " ", "d", "o">>,
      <<"t", "o", "d", "o">>,
      <<"r", "e", "v", "i", "e", "w">>,
      <<"p", "r", "o", "g", "r", "e", "s", "s">>,
      <<"d", "o", "n", "e">>,
      <<"c", "o", "m", "p", "l", "e", "t", "e">>,
      <<"c", "l", "o", "s", "e", "d">>,
      <<"r", "e", "s", "o", "l", "v", "e", "d">>,
      <<"f", "i", "x", "e", "d">>>>

\* The result is the pair (task_description, status); (None, None) when
\* parsing fails.
parse_update_command(command_text) ==
    LET content == strip(replace(command_text, <<"!", "u", "p", "d", "a", "t", "e">>, <<>>))
        found == {i \in 1..Len(valid_statuses) :
                      endswith(lower(content), lower(valid_statuses[i]))}
    IN  IF content = <<>> \/ found = {} THEN <<None, None>>
        ELSE LET status == valid_statuses[CHOOSE i \in found : \A j \in found : i <= j]
                 found_status == lower(status)
                 task_description ==
                   strip(SubSeq(content, 1, Len(content) - Len(status)))
             IN  <<task_description, normalize_status(found_status).ret>>

InitParse ==
    /\ api_key = FALSE
    /\ runs = NoRuns /\ channel = <<>> /\ store = <<>>
    /\ clickup_client = [list_id |-> <<>>, folder_id |-> <<>>]
    /\ \E c \in {<<"!", "u", "p", "d", "a", "t", "e", " ", "i", "n", "t", "e", "g", "r", "a", "c", "j", "a", " ", "b", "o", "t", "a", " ", "z", " ", "c", "l", "i", "c", "k", "u", "p", "e", "m", " ", "r", "e", "v", "i", "e", "w">>,
                 <<"!", "u", "p", "d", "a", "t", "e", " ", "f", "i", "x", " ", "l", "o", "g", "i", "n", " ", "b", "u", "g", " ", "i", "n", " ", "p", "r", "o", "g", "r", "e", "s", "s">>,
                 <<"!", "u", "p", "d", "a", "t", "e", " ", "d", "o", "k", "u", "m", "e", "n", "t", "a", "c", "j", "a", " ", "c", "l", "o", "s", "e", "d">>,
                 <<"!", "u", "p", "d", "a", "t", "e", " ", "d", "o", "c", "s", " ", "t", "o", " ", "d", "o">>, <<"!", "u", "p", "d", "a", "t", "e", " ", "d", "o", "c", "s", " ", "T", "O", "D", "O">>,
                 <<"!", "u", "p", "d", "a", "t", "e", " ", "d", "o", "c", "s", " ", "D", "o", "n", "e", " ">>, <<"!", "u", "p", "d", "a", "t", "e", " ", "d", "o", "c", "s", " ", "f", "i", "x", "e", "d">>,
                 <<"!", "u", "p", "d", "a", "t", "e", " ", "f", "i", "x", " ", "l", "o", "g", "i", "n", " ", "b", "u", "g">>, <<"!", "u", "p", "d", "a", "t", "e">>, <<"!", "u", "p", "d", "a", "t", "e", " ", " ", " ">>,
                 <<"!", "u", "p", "d", "a", "t", "e", " ", "r", "e", "v", "i", "e", "w", " ", "d", "o", "c", "s">>, <<"!", "u", "p", "d", "a", "t", "e", " ", "d", "o", "c", "s", " ", "i", "n", "-", "p", "r", "o", "g", "r", "e", "s", "s">>} :
          unit = [NoUnit EXCEPT !.fn = "parse_update_command", !.st = "call",
                                !.content = c]

CallParse ==
    /\ unit.fn = "parse_update_command" /\ unit.st = "call"
    /\ unit' = [unit EXCEPT !.st = "done",
                  !.res = Return(parse_update_command(unit.content), 0)]
    /\ UNCHANGED <<api_key, clickup_client, channel, store, runs>>

ParseDone == unit.fn = "parse_update_command" /\ unit.st = "done"

\* the command body: the text after '!update', trimmed
Body == strip(SubSeq(unit.content, 8, Len(unit.content)))

\* C28: parse_update_command returns (description, status) where status is
\* the status keyword the command ends with and description is what stands
\* before it, as in the documented examples, and (None, None) when the
\* command body is empty or ends with no status keyword.
C28_ParseUpdate ==
    ParseDone =>
        LET trailing == {i \in 1..Len(valid_statuses) :
                             endswith(lower(Body), valid_statuses[i])}
        IN  /\ Body = <<>> \/ trailing = {} => unit.res.ret = <<None, None>>
            /\ Body # <<>> /\ trailing # {} =>
                  \E i \in trailing :
                      /\ unit.res.ret[2] = valid_statuses[i]
                      /\ unit.res.ret[1] =
                            strip(SubSeq(Body, 1, Len(Body) - Len(valid_statuses[i])))
            /\ unit.content = <<"!", "u", "p", "d", "a", "t", "e", " ", "i", "n", "t", "e", "g", "r", "a", "c", "j", "a", " ", "b", "o", "t", "a", " ", "z", " ", "c", "l", "i", "c", "k", "u", "p", "e", "m", " ", "r", "e", "v", "i", "e", "w">> =>
                  unit.res.ret = <<<<"i", "n", "t", "e", "g", "r", "a", "c", "j", "a", " ", "b", "o", "t", "a", " ", "z", " ", "c", "l", "i", "c", "k", "u", "p", "e", "m">>, <<"r", "e", "v", "i", "e", "w">>>>
            /\ unit.content = <<"!", "u", "p", "d", "a", "t", "e", " ", "f", "i", "x", " ", "l", "o", "g", "i", "n", " ", "b", "u", "g", " ", "i", "n", " ", "p", "r", "o", "g", "r", "e", "s", "s">> =>
                  unit.res.ret = <<<<"f", "i", "x", " ", "l", "o", "g", "i", "n", " ", "b", "u", "g">>, <<"i", "n", " ", "p", "r", "o", "g", "r", "e", "s", "s">>>>
            /\ unit.content = <<"!", "u", "p", "d", "a", "t", "e", " ", "d", "o", "k", "u", "m", "e", "n", "t", "a", "c", "j", "a", " ", "c", "l", "o", "s", "e", "d">> =>
                  unit.res.ret = <<<<"d", "o", "k", "u", "m", "e", "n", "t", "a", "c", "j", "a">>, <<"c", "l", "o", "s", "e", "d">>>>

----------------------------------------------------------------------------
(* the helper functions outside the pipeline, each called once *)

InitHelpers == InitRouter \/ InitSimilar \/ InitStatus
                   \/ InitMember \/ InitContext \/ InitStore
                   \/ InitExtract \/ InitCommand \/ InitMessage
                   \/ InitParse

NextHelpers == CallRouter \/ CallSimilar \/ CallStatus
                   \/ CallMember \/ CallContext \/ CallStore
                   \/ CallExtract \/ CallCommand \/ CallMessage
                   \/ CallParse

SpecHelpers == InitHelpers /\ [][NextHelpers]_vars








\* the run has started and has not finished
Pending(r) == runs[r].pc \notin {"idle", "done"}

\* C21: while one run waits inside a model call or a store call, a run for
\* another message that has work left can take its next step.
C21_StallBlocksOnlyItsRun ==
    \A r \in Runs, q \in Runs :
        r # q /\ runs[r].pc = "blocked" /\ Pending(q) =>
            ENABLED (\/ EnterTyping(q) \/ Classify(q) \/ Extract(q)
                     \/ Stall(q) \/ Submit(q) \/ Reply(q))


\* what run r submitted is made of r's own message and of what r received
OwnInputs(r) ==
    LET run == runs[r]
    IN  \A i \in Positions(run.trace, "create_task") :
           /\ Contains(run.clean_content, run.content)
           /\ run.trace[i].name = run.final_task_name
           /\ run.trace[i].list = IF run.target_list_id \in {None, <<>>}
                                  THEN clickup_client.list_id
                                  ELSE run.target_list_id
           /\ run.trace[i].flag =>
                 \E k \in 1..Len(store) :
                     /\ store[k].name = run.final_task_name
                     /\ store[k].list_id = run.trace[i].list
                     /\ store[k].description.message = run.clean_content
                     /\ store[k].description.command = run.is_command
                     /\ store[k].description.extracted = run.task_description_from_context
                     /\ store[k].description.target_list = run.list_description
                     /\ store[k].description.context.messages = run.relevant_context
                     /\ store[k].description.context.analysed \in
                            {0, Len(run.all_channel_messages)}

\* the store holds one task per accepted submission
OneTaskPerSubmission ==
    Len(store) = Cardinality({<<r, i>> \in Runs \X (1..12) :
                                 /\ i \in Positions(runs[r].trace, "create_task")
                                 /\ runs[r].trace[i].flag})

\* C22: runs interleave without sharing mutable state: the credential and
\* the list identifiers are never written, a step changes the locals of one
\* run only, and what a run submits is made of its own message and of the
\* responses it received, under every interleaving.
C22_NoSharedState ==
    /\ [](\A r \in Runs : OwnInputs(r))
    /\ []OneTaskPerSubmission
    /\ [][/\ api_key' = api_key
          /\ clickup_client' = clickup_client
          /\ \A r \in Runs, q \in Runs :
                r # q => runs'[r] = runs[r] \/ runs'[q] = runs[q]]_vars

\* both runs submitted, the second one first
C22_Witness ==
    /\ runs[1].pc = "done" /\ runs[2].pc = "done"
    /\ Len(store) = 2
    /\ store[1].description.message = runs[2].clean_content
    /\ store[2].description.message = runs[1].clean_content
    /\ store[1].list_id # store[2].list_id



\* the run for '<@BOT> Fix login bug with special chars' has finished, and
\* its folder lookup was answered with [Sprint1, Sprint2]
EndToEndRun(r) ==
    /\ runs[r].content = Mention \o <<" ", "F", "i", "x", " ", "l", "o", "g", "i", "n", " ", "b", "u", "g", " ", "w", "i", "t", "h", " ", "s", "p", "e", "c", "i", "a", "l", " ", "c", "h", "a", "r", "s">>
    /\ runs[r].pc = "done"
    /\ \E i \in Positions(runs[r].trace, "get_folder_lists") :
          /\ runs[r].trace[i].flag
          /\ Len(runs[r].trace[i].list) = 2
          /\ runs[r].trace[i].list[1].name = <<"S", "p", "r", "i", "n", "t", "1">>
          /\ runs[r].trace[i].list[2].name = <<"S", "p", "r", "i", "n", "t", "2">>

\* titled from the cleaned content, routed to Sprint2, submitted once there
TitledAndRouted(r) ==
    LET run == runs[r]
        posts == Positions(run.trace, "create_task")
    IN  /\ Positions(run.trace, "generate_smart_title") # {}
        /\ Positions(run.trace, "extract_task_from_context") = {}
        /\ run.task_input_content = <<"F", "i", "x", " ", "l", "o", "g", "i", "n", " ", "b", "u", "g", " ", "w", "i", "t", "h", " ", "s", "p", "e", "c", "i", "a", "l", " ", "c", "h", "a", "r", "s">>
        /\ run.target_list_id = <<"s", "2">>
        /\ Cardinality(posts) = 1
        /\ \A i \in posts :
              /\ run.trace[i].list = <<"s", "2">>
              /\ \/ run.trace[i].name = <<"F", "i", "x", " ", "l", "o", "g", "i", "n", " ", "b", "u", "g", " ", "w", "i", "t", "h", " ", "s", "p", "e", "c", "i", "a", "l", " ", "c", "h", "a", "r", "s">>
                 \/ \E o \in PipelineTitleOutcomes :
                       /\ o.kind = "text"
                       /\ o.text # <<>> /\ Len(o.text) <= 80
                       /\ run.trace[i].name = o.text
              /\ run.trace[i].flag =>
                    /\ Len(store) = 1
                    /\ store[1].list_id = <<"s", "2">>
                    /\ store[1].name = run.trace[i].name

\* C24 as stated: the run for '<@BOT> Fix login bug with special chars'
\* with folder lists [Sprint1, Sprint2] classifies the message as a task
\* description, generates the title from the cleaned content, routes to
\* Sprint2 and submits exactly one task there.
C24_EndToEnd ==
    \A r \in Runs : EndToEndRun(r) => ~runs[r].is_command /\ TitledAndRouted(r)

\* C24 amended: the same, unless the classifier's model answered COMMAND,
\* which only happens when a credential is configured; without that answer
\* the message is a task description, titled, routed and submitted as said.
C24_EndToEndUnlessCommand ==
    \A r \in Runs :
        EndToEndRun(r) =>
            /\ runs[r].is_command =>
                  /\ api_key
                  /\ \E i \in Positions(runs[r].trace, "is_task_creation_command") :
                        /\ runs[r].trace[i].flag
                        /\ runs[r].trace[i + 1].op = "chat_completions_create"
            /\ ~runs[r].is_command => TitledAndRouted(r)

C24_Witness ==
    \E r \in Runs :
        /\ EndToEndRun(r) /\ ~runs[r].is_command /\ api_key
        /\ store # <<>> /\ store[1].name = <<"F", "i", "x", " ", "l", "o", "g", "i", "n", " ", "b", "u", "g">>
        /\ store[1].list_id = <<"s", "2">>






\* C29: every result of normalize_status other than none is one of 'to do',
\* 'in progress', 'in review', 'complete', and normalize_status maps it to
\* itself.
C29_Idempotent ==
    StatusDone /\ unit.res.ret # None =>
        /\ unit.res.ret \in {<<"t", "o", " ", "d", "o">>, <<"i", "n", " ", "p", "r", "o", "g", "r", "e", "s", "s">>, <<"i", "n", " ", "r", "e", "v", "i", "e", "w">>,
                             <<"c", "o", "m", "p", "l", "e", "t", "e">>}
        /\ normalize_status(unit.res.ret).ret = unit.res.ret

C29_Witness ==
    /\ StatusDone
    /\ unit.content = <<"F", "I", "X", "E", "D", " ">>
    /\ unit.res.ret = <<"c", "o", "m", "p", "l", "e", "t", "e">>
    /\ normalize_status(unit.res.ret).ret = <<"c", "o", "m", "p", "l", "e", "t", "e">>



\* the list a message is routed to, given what the store answered to the
\* folder lookups the run made: a function of the text and of the store
RouteOf(run) ==
    LET lookups == Positions(run.trace, "get_folder_lists")
        answered == {i \in lookups : run.trace[i].flag /\ run.trace[i].list # <<>>}
    IN  IF \E i \in 1..Len(run.clean_content) :
               lower(SubSeq(run.clean_content, i,
                            Min(i + 6, Len(run.clean_content)))) = <<"b", "a", "c", "k", "l", "o", "g">>
           \/ answered = {}
        THEN clickup_client.list_id
        ELSE LET lists == run.trace[CHOOSE i \in answered : TRUE].list
             IN  lists[Len(lists)].id

\* C30: the list a run submits to is fixed by its cleaned message text and
\* by the store's answer to its folder lookup, whatever the model returned
\* to the classifier, the extractor, the filter and the title generator;
\* so two runs with the same text and the same folder answer submit to the
\* same list.
C30_RouteIgnoresModel ==
    \A r \in Runs :
        /\ Cardinality(Positions(runs[r].trace, "get_folder_lists")) <= 1
        /\ \A i \in Positions(runs[r].trace, "create_task") :
              runs[r].trace[i].list = RouteOf(runs[r])

\* 'backlog' only in the text the model extracted: still the sprint list
C30_Witness ==
    \E r \in Runs :
        /\ runs[r].pc = "done" /\ runs[r].is_command
        /\ runs[r].clean_content = <<"d", "o", "d", "a", "j", " ", "t", "a", "s", "k", "a">>
        /\ Contains(<<"b", "a", "c", "k", "l", "o", "g">>, runs[r].task_input_content)
        /\ \E i \in Positions(runs[r].trace, "create_task") :
              runs[r].trace[i].list = <<"s", "2">> /\ runs[r].trace[i].flag


====
